---- MODULE Spec2Model ----
(***************************************************************************)
(* State-machine model of the RJW-IDD agent core:                          *)
(*   - TraceabilityChain and SystemGuard   (src/src/system/guard.py)       *)
(*   - ChecklistEnforcer and GovernanceManager                             *)
(*                                         (src/src/governance/manager.py) *)
(*   - ContextCurator                      (src/src/context/engine.py)     *)
(*   - TemplateManager.generate_artifact_id (src/src/utils.py) and         *)
(*     ResearchHarvester.harvest           (src/src/discovery/research.py) *)
(*   - ResearchHarvester.require_evidence_for_artifact and the decisions   *)
(*     and specifications of PromptOptimizer                               *)
(*                                         (src/src/interaction/optimizer.py) *)
(* Python dicts are functions with a growing domain, Python lists are      *)
(* sequences, a raised exception is recorded in the result of the call.    *)
(***************************************************************************)
EXTENDS Integers, Sequences, FiniteSets, TLC

VARIABLES
    evidence_files,   \* TraceabilityChain.evidence_files : set of evidence ids
    spec_files,       \* TraceabilityChain.spec_files : spec id -> list of evidence ids
    test_files,       \* TraceabilityChain.test_files : test id -> {spec_refs, status}
    code_files,       \* TraceabilityChain.code_files : code file -> list of test ids
    strict_mode,      \* SystemGuard.strict_mode
    operation_log,    \* SystemGuard.operation_log
    last,             \* the most recent SystemGuard / TraceabilityChain call and its outcome
    yolo_mode,        \* GovernanceManager.yolo_mode
    trust_level,      \* GovernanceManager.trust_level (TrustLevel value 0..3)
    validation_results, \* ChecklistEnforcer.validation_results : phase -> status
    approval_log,     \* GovernanceManager.approval_log
    glast,            \* the most recent GovernanceManager / ChecklistEnforcer call and its outcome
    context_indexes,  \* ContextCurator.context_indexes : ctx id -> ContextIndex
    clast,            \* the most recent ContextCurator call, its arguments and its result
    today,            \* the UTC date that datetime.now gives, as a day number
    evidence_registry, \* ResearchHarvester.evidence_registry : the set of its keys
    hlast,            \* the most recent ResearchHarvester / TemplateManager call and its result
    workflow_state,   \* PromptOptimizer.workflow_state : its decisions and specifications
    olast             \* the most recent evidence check or PromptOptimizer call and its outcome

guardVars == <<evidence_files, spec_files, test_files, code_files, strict_mode,
               operation_log, last>>
govVars == <<yolo_mode, trust_level, validation_results, approval_log, glast>>
vars == <<evidence_files, spec_files, test_files, code_files, strict_mode,
          operation_log, last, yolo_mode, trust_level, validation_results,
          approval_log, glast, context_indexes, clast, today, evidence_registry,
          hlast, workflow_state, olast>>
curatorVars == <<context_indexes, clast>>
harvesterVars == <<evidence_registry, hlast>>
optimizerVars == <<workflow_state, olast>>
\* what the calls on one component leave alone
besideGuard == <<govVars, curatorVars, harvesterVars, optimizerVars, today>>
besideGov == <<guardVars, curatorVars, harvesterVars, optimizerVars, today>>
besideCurator == <<guardVars, govVars, harvesterVars, optimizerVars, today>>
besideHarvester == <<guardVars, govVars, curatorVars, optimizerVars, today>>
besideOptimizer == <<guardVars, govVars, curatorVars, today>>
besideClock == <<guardVars, govVars, curatorVars, harvesterVars, optimizerVars>>
chain == <<evidence_files, spec_files, test_files, code_files>>

(***************************************************************************)
(* Bounds and input sets                                                   *)
(***************************************************************************)
\* number of entries the operation log may hold before the model stops
MaxLog == 4
\* number of entries the approval log may hold before the model stops
MaxApprovalLog == 2

\* ids a caller registers
EvdIds == {"EVD-0001"}
SpecIds == {"SPEC-0001", "SPEC-0002"}
TestIds == {"TEST-0001", "TEST-0002"}
CodeFileIds == {"app.py"}
\* ids a caller may cite; EVD-9999 is never registered
EvdRefInputs == EvdIds \cup {"EVD-9999"}
\* 'failing' and 'passing' are the two documented values, 'skipped' stands for any other string
StatusInputs == {"failing", "passing", "skipped"}

\* every list of distinct elements of S
RECURSIVE RefLists(_)
RefLists(S) ==
    {<<>>} \cup UNION {{<<x>> \o q : q \in RefLists(S \ {x})} : x \in S}

EmptyMap == [k \in {} |-> <<>>]

\* d[k] = v on a Python dict
Put(d, k, v) == [x \in DOMAIN d \cup {k} |-> IF x = k THEN v ELSE d[x]]

Range(q) == {q[i] : i \in 1..Len(q)}

(***************************************************************************)
(* TraceabilityChain                                                       *)
(***************************************************************************)
\* invalid_refs = [ref for ref in refs if ref not in known]
InvalidRefs(refs, known) == SelectSeq(refs, LAMBDA r : r \notin known)

\* the inner loop of validate_chain: for spec_id in spec_refs
RECURSIVE CheckSpecs(_)
CheckSpecs(spec_refs) ==
    IF spec_refs = <<>> THEN "ok"
    ELSE IF Head(spec_refs) \notin DOMAIN spec_files THEN "KeyError"
    ELSE IF spec_files[Head(spec_refs)] = <<>> THEN "no_evidence"
    ELSE CheckSpecs(Tail(spec_refs))

\* a status check that lets every status through
StatusAcceptedAlways(status) == TRUE

\* the check of the test status in validate_chain
StatusAccepted(status) == status \in {"failing", "passing"}

\* the outer loop of validate_chain: for test_id in test_refs
RECURSIVE CheckTests(_)
CheckTests(test_refs) ==
    IF test_refs = <<>> THEN "ok"
    ELSE IF Head(test_refs) \notin DOMAIN test_files THEN "KeyError"
    ELSE LET test_data == test_files[Head(test_refs)]
         IN IF ~StatusAccepted(test_data.status) THEN "invalid_status"
            ELSE IF test_data.spec_refs = <<>> THEN "no_specs"
            ELSE LET inner == CheckSpecs(test_data.spec_refs)
                 IN IF inner # "ok" THEN inner ELSE CheckTests(Tail(test_refs))

\* validate_chain(code_file) on the code map cf: "True" or the reason it raises
ValidateChainOn(cf, code_file) ==
    IF code_file \notin DOMAIN cf THEN "no_linked_tests"
    ELSE LET r == CheckTests(cf[code_file])
         IN IF r = "ok" THEN "True" ELSE r

ValidateChain(code_file) == ValidateChainOn(code_files, code_file)

\* the exception a validate_chain outcome stands for
Raised(outcome) ==
    IF outcome = "True" THEN "none"
    ELSE IF outcome = "KeyError" THEN "KeyError"
    ELSE "GuardViolation"

\* get_chain_info(code_file) looks up a test or a spec that is not registered
GetChainInfoRaises(code_file) ==
    /\ code_file \in DOMAIN code_files
    /\ \E i \in 1..Len(code_files[code_file]) :
          LET test_id == code_files[code_file][i]
          IN \/ test_id \notin DOMAIN test_files
             \/ \E j \in 1..Len(test_files[test_id].spec_refs) :
                    test_files[test_id].spec_refs[j] \notin DOMAIN spec_files

(***************************************************************************)
(* TraceabilityChain operations, called on a chain directly                *)
(***************************************************************************)
Call(op, ret, at) == [op |-> op, ret |-> ret, at |-> at]

\* register_spec looking at the first reference only
RegisterSpecRaisesFirstOnly(evd_refs) ==
    evd_refs # <<>> /\ Head(evd_refs) \notin evidence_files

\* TraceabilityChain.register_spec raises
RegisterSpecRaises(evd_refs) == InvalidRefs(evd_refs, evidence_files) # <<>>

\* the spec map after TraceabilityChain.register_spec returned
SpecFilesAfter(spec_id, evd_refs) == Put(spec_files, spec_id, evd_refs)

\* register_test without its reference check
RegisterTestNeverRaises(spec_refs) == FALSE

\* TraceabilityChain.register_test raises
RegisterTestRaises(spec_refs) == InvalidRefs(spec_refs, DOMAIN spec_files) # <<>>

\* the test map after TraceabilityChain.register_test returned
\* a registration that keeps the status of a test already registered
TestFilesAfterKeepingStatus(test_id, spec_refs, status) ==
    Put(test_files, test_id,
        [spec_refs |-> spec_refs,
         status |-> IF test_id \in DOMAIN test_files
                    THEN test_files[test_id].status
                    ELSE status])

TestFilesAfter(test_id, spec_refs, status) ==
    Put(test_files, test_id, [spec_refs |-> spec_refs, status |-> status])

\* link_code_to_test looking at the first reference only
LinkRaisesFirstOnly(test_refs) ==
    test_refs # <<>> /\ Head(test_refs) \notin DOMAIN test_files

\* TraceabilityChain.link_code_to_test raises
LinkRaises(test_refs) == InvalidRefs(test_refs, DOMAIN test_files) # <<>>

\* the code map after TraceabilityChain.link_code_to_test returned
CodeFilesAfter(code_file, test_refs) == Put(code_files, code_file, test_refs)

\* TraceabilityChain.register_evidence
ChainRegisterEvidence(evd_id) ==
    /\ evidence_files' = evidence_files \cup {evd_id}
    /\ last' = Call("register_evidence", "None", "none")
    /\ UNCHANGED <<spec_files, test_files, code_files>>
    /\ UNCHANGED <<strict_mode, operation_log, besideGuard>>

\* TraceabilityChain.register_spec
ChainRegisterSpec(spec_id, evd_refs) ==
    /\ IF RegisterSpecRaises(evd_refs)
       THEN /\ last' = Call("register_spec", "GuardViolation", "register_spec")
            /\ UNCHANGED spec_files
       ELSE /\ spec_files' = SpecFilesAfter(spec_id, evd_refs)
            /\ last' = Call("register_spec", "None", "none")
    /\ UNCHANGED <<evidence_files, test_files, code_files>>
    /\ UNCHANGED <<strict_mode, operation_log, besideGuard>>

\* TraceabilityChain.register_test
ChainRegisterTest(test_id, spec_refs, status) ==
    /\ IF RegisterTestRaises(spec_refs)
       THEN /\ last' = Call("register_test", "GuardViolation", "register_test")
            /\ UNCHANGED test_files
       ELSE /\ test_files' = TestFilesAfter(test_id, spec_refs, status)
            /\ last' = Call("register_test", "None", "none")
    /\ UNCHANGED <<evidence_files, spec_files, code_files>>
    /\ UNCHANGED <<strict_mode, operation_log, besideGuard>>

\* TraceabilityChain.link_code_to_test
LinkCodeToTest(code_file, test_refs) ==
    /\ IF LinkRaises(test_refs)
       THEN /\ last' = Call("link_code_to_test", "GuardViolation", "link_code_to_test")
            /\ UNCHANGED code_files
       ELSE /\ code_files' = CodeFilesAfter(code_file, test_refs)
            /\ last' = Call("link_code_to_test", "None", "none")
    /\ UNCHANGED <<evidence_files, spec_files, test_files>>
    /\ UNCHANGED <<strict_mode, operation_log, besideGuard>>

\* validate_chain dropping the link it found broken
ValidateChainCallUnlinking(code_file) ==
    /\ last' = Call("validate_chain",
                    IF ValidateChain(code_file) = "True" THEN "True"
                    ELSE Raised(ValidateChain(code_file)),
                    ValidateChain(code_file))
    /\ code_files' = IF ValidateChain(code_file) = "True" THEN code_files
                     ELSE [x \in DOMAIN code_files \ {code_file} |-> code_files[x]]
    /\ UNCHANGED <<evidence_files, spec_files, test_files>>
    /\ UNCHANGED <<strict_mode, operation_log, besideGuard>>

\* TraceabilityChain.validate_chain
ValidateChainCall(code_file) ==
    /\ last' = Call("validate_chain",
                    IF ValidateChain(code_file) = "True" THEN "True"
                    ELSE Raised(ValidateChain(code_file)),
                    ValidateChain(code_file))
    /\ UNCHANGED <<evidence_files, spec_files, test_files, code_files>>
    /\ UNCHANGED <<strict_mode, operation_log, besideGuard>>

(***************************************************************************)
(* SystemGuard                                                             *)
(***************************************************************************)
\* _log_operation: the entry appended (timestamp, path and free text left out)
LogEntry(op_type, success) == [operation |-> op_type, success |-> success]

LogRoom == Len(operation_log) < MaxLog

\* SystemGuard.register_evidence
RegisterEvidence(evd_id) ==
    /\ LogRoom
    /\ evidence_files' = evidence_files \cup {evd_id}
    /\ operation_log' = Append(operation_log, LogEntry("create", TRUE))
    /\ last' = Call("register_evidence", "None", "none")
    /\ UNCHANGED <<spec_files, test_files, code_files, strict_mode, besideGuard>>

\* SystemGuard.register_spec
RegisterSpec(spec_id, evd_refs) ==
    /\ IF RegisterSpecRaises(evd_refs)
       THEN /\ last' = Call("register_spec", "GuardViolation", "register_spec")
            /\ UNCHANGED <<spec_files, operation_log>>
       ELSE /\ LogRoom
            /\ spec_files' = SpecFilesAfter(spec_id, evd_refs)
            /\ operation_log' = Append(operation_log, LogEntry("create", TRUE))
            /\ last' = Call("register_spec", "None", "none")
    /\ UNCHANGED <<evidence_files, test_files, code_files, strict_mode, besideGuard>>

\* SystemGuard.register_test
RegisterTest(test_id, spec_refs, status) ==
    /\ IF RegisterTestRaises(spec_refs)
       THEN /\ last' = Call("register_test", "GuardViolation", "register_test")
            /\ UNCHANGED <<test_files, operation_log>>
       ELSE /\ LogRoom
            /\ test_files' = TestFilesAfter(test_id, spec_refs, status)
            /\ operation_log' = Append(operation_log, LogEntry("create", TRUE))
            /\ last' = Call("register_test", "None", "none")
    /\ UNCHANGED <<evidence_files, spec_files, code_files, strict_mode, besideGuard>>

\* SystemGuard.write_code; io_ok: the file system accepts the write
WriteCode(code_file, test_refs, io_ok) ==
    /\ UNCHANGED <<evidence_files, spec_files, test_files, strict_mode, besideGuard>>
    /\ IF strict_mode /\ LinkRaises(test_refs)
       THEN /\ last' = Call("write_code", "GuardViolation", "link_code_to_test")
            /\ UNCHANGED <<code_files, operation_log>>
       ELSE LET linked == IF strict_mode THEN CodeFilesAfter(code_file, test_refs)
                          ELSE code_files
                checked == IF strict_mode THEN ValidateChainOn(linked, code_file)
                           ELSE "True"
            IN /\ code_files' = linked
               /\ IF checked # "True"
                  THEN /\ last' = Call("write_code", Raised(checked), checked)
                       /\ UNCHANGED operation_log
                  ELSE /\ LogRoom
                       /\ operation_log' = Append(operation_log, LogEntry("write", io_ok))
                       /\ last' = IF io_ok THEN Call("write_code", "True", "none")
                                  ELSE Call("write_code", "GuardViolation", "write")

\* SystemGuard.set_strict_mode
SetStrictMode(enabled) ==
    /\ LogRoom
    /\ strict_mode' = enabled
    /\ operation_log' = Append(operation_log, LogEntry("write", TRUE))
    /\ last' = Call("set_strict_mode", "None", "none")
    /\ UNCHANGED <<evidence_files, spec_files, test_files, code_files, besideGuard>>

\* TraceabilityChain.__init__ and SystemGuard.__init__
GuardInit ==
    /\ evidence_files = {}
    /\ spec_files = EmptyMap
    /\ test_files = EmptyMap
    /\ code_files = EmptyMap
    /\ strict_mode \in BOOLEAN
    /\ operation_log = <<>>
    /\ last = Call("init", "None", "none")

(***************************************************************************)
(* ChecklistEnforcer                                                       *)
(***************************************************************************)
Item(text) == [item |-> text, required |-> TRUE]

\* ChecklistEnforcer.checklists
Checklists ==
    [research |-> <<Item("Evidence harvested"), Item("Sources documented"),
                    Item("Key insights extracted")>>,
     decision |-> <<Item("Evidence references provided"), Item("Options evaluated"),
                    Item("Rationale documented")>>,
     specification |-> <<Item("Requirements defined"), Item("Evidence backing provided"),
                         Item("Technical design complete")>>,
     implementation |-> <<Item("Tests written"), Item("Code implements spec"),
                          Item("Tests passing")>>]

\* needle in item, for the needles of _check_item and the items of the checklists
InText(needle, item) ==
    \/ needle = item
    \/ needle = "Evidence references" /\ item = "Evidence references provided"
    \/ needle = "Evidence backing" /\ item = "Evidence backing provided"

\* bool(artifacts.get(key)) for a key that holds a list
Given(artifacts, key) == key \in DOMAIN artifacts /\ artifacts[key] # <<>>

\* artifacts.get(key, False) for a key that holds a boolean
Flag(artifacts, key) == key \in DOMAIN artifacts /\ artifacts[key]

\* a _check_item in which an item no rule matches fails
CheckItemUnmatchedFails(phase, item, artifacts) ==
    IF phase = "research" /\ InText("Evidence harvested", item)
        THEN Given(artifacts, "evidence_ids")
    ELSE IF phase = "research" /\ InText("Sources documented", item)
        THEN Given(artifacts, "evidence_ids")
    ELSE IF phase = "decision" /\ InText("Evidence references", item)
        THEN Given(artifacts, "evidence_refs")
    ELSE IF phase = "decision" /\ InText("Options evaluated", item)
        THEN Given(artifacts, "options")
    ELSE IF phase = "specification" /\ InText("Requirements defined", item)
        THEN Given(artifacts, "requirements")
    ELSE IF phase = "specification" /\ InText("Evidence backing", item)
        THEN Given(artifacts, "evidence_refs")
    ELSE IF phase = "implementation" /\ InText("Tests written", item)
        THEN Given(artifacts, "test_files")
    ELSE IF phase = "implementation" /\ InText("Tests passing", item)
        THEN Flag(artifacts, "tests_passing")
    ELSE FALSE

\* ChecklistEnforcer._check_item
CheckItem(phase, item, artifacts) ==
    IF phase = "research" /\ InText("Evidence harvested", item)
        THEN Given(artifacts, "evidence_ids")
    ELSE IF phase = "research" /\ InText("Sources documented", item)
        THEN Given(artifacts, "evidence_ids")
    ELSE IF phase = "decision" /\ InText("Evidence references", item)
        THEN Given(artifacts, "evidence_refs")
    ELSE IF phase = "decision" /\ InText("Options evaluated", item)
        THEN Given(artifacts, "options")
    ELSE IF phase = "specification" /\ InText("Requirements defined", item)
        THEN Given(artifacts, "requirements")
    ELSE IF phase = "specification" /\ InText("Evidence backing", item)
        THEN Given(artifacts, "evidence_refs")
    ELSE IF phase = "implementation" /\ InText("Tests written", item)
        THEN Given(artifacts, "test_files")
    ELSE IF phase = "implementation" /\ InText("Tests passing", item)
        THEN Flag(artifacts, "tests_passing")
    ELSE TRUE

\* validate_phase raises ValueError
UnknownPhase(phase) == phase \notin DOMAIN Checklists

\* all_passed of validate_phase
AllPassed(phase, artifacts) ==
    \A i \in 1..Len(Checklists[phase]) :
        Checklists[phase][i].required =>
            CheckItem(phase, Checklists[phase][i].item, artifacts)

\* a validation that starts the results over
ResultsAfterForgetting(phase, artifacts) ==
    Put(EmptyMap, phase,
        IF AllPassed(phase, artifacts) THEN "passed" ELSE "failed")

\* validation_results after validate_phase returned
ResultsAfter(phase, artifacts) ==
    Put(validation_results, phase,
        IF AllPassed(phase, artifacts) THEN "passed" ELSE "failed")

(***************************************************************************)
(* GovernanceManager                                                       *)
(***************************************************************************)
\* TrustLevel
SUPERVISED == 0
GUIDED == 1
AUTONOMOUS == 2
TRUSTED_PARTNER == 3
TrustLevels == {SUPERVISED, GUIDED, AUTONOMOUS, TRUSTED_PARTNER}

\* TrustLevel.name
TrustName(level) ==
    CASE level = SUPERVISED -> "SUPERVISED"
      [] level = GUIDED -> "GUIDED"
      [] level = AUTONOMOUS -> "AUTONOMOUS"
      [] level = TRUSTED_PARTNER -> "TRUSTED_PARTNER"

\* an authorization table in which every level below TRUSTED_PARTNER also
\* holds the first legacy level of the level above
TrustAuthorizationsWidened(level) ==
    CASE level = SUPERVISED -> {"minimal", "low", "medium"}
      [] level = GUIDED -> {"minimal", "low", "medium", "high"}
      [] level = AUTONOMOUS ->
             {"minimal", "low", "medium", "high", "critical", "streamlined",
              "prototype"}
      [] level = TRUSTED_PARTNER ->
             {"minimal", "low", "medium", "high", "critical", "streamlined",
              "yolo", "prototype"}

\* trust_authorizations of _check_trust_authorization
TrustAuthorizations(level) ==
    CASE level = SUPERVISED -> {"minimal", "low"}
      [] level = GUIDED -> {"minimal", "low", "medium"}
      [] level = AUTONOMOUS ->
             {"minimal", "low", "medium", "high", "streamlined", "prototype"}
      [] level = TRUSTED_PARTNER ->
             {"minimal", "low", "medium", "high", "critical", "streamlined",
              "yolo", "prototype"}

\* an authorization check that consults the table only
CheckTrustAuthorizationTableOnly(level, risk_level) ==
    risk_level \in TrustAuthorizations(level)

\* an authorization check that lets TRUSTED_PARTNER do anything
CheckTrustAuthorizationPartnerUnbounded(level, risk_level) ==
    IF level = TRUSTED_PARTNER THEN TRUE
    ELSE IF risk_level \in {"streamlined", "prototype"} THEN level >= GUIDED
    ELSE IF risk_level = "yolo" THEN level >= AUTONOMOUS
    ELSE risk_level \in TrustAuthorizations(level)

\* GovernanceManager._check_trust_authorization at trust level `level`
CheckTrustAuthorization(level, risk_level) ==
    IF risk_level \in {"streamlined", "prototype"} THEN level >= GUIDED
    ELSE IF risk_level = "yolo" THEN level >= AUTONOMOUS
    ELSE risk_level \in TrustAuthorizations(level)

\* yolo mode approving whatever the checklist said
YoloAlwaysApproved(checklist_passed) == TRUE

\* approved of request_approval, in yolo mode
YoloApproved(checklist_passed) == checklist_passed

\* standard mode approving on the checklist alone
StandardApprovedOnChecklistAlone(can_auto_approve, checklist_passed) ==
    checklist_passed

\* standard mode approving on authorization alone
StandardApprovedOnTrustAlone(can_auto_approve, checklist_passed) ==
    can_auto_approve

\* approved of request_approval, in standard mode
StandardApproved(can_auto_approve, checklist_passed) ==
    can_auto_approve /\ checklist_passed

\* a decision whose yolo branch still asks the trust level
ApprovalDecisionYoloAskingTrust(yolo, level, risk_level, checklist_passed) ==
    LET approved == StandardApproved(CheckTrustAuthorization(level, risk_level),
                                     checklist_passed)
        mode == IF yolo THEN "yolo"
                ELSE IF approved THEN "trust_based" ELSE "manual_required"
    IN [approved |-> approved, mode |-> mode]

\* a decision whose standard mode is named after the authorization alone
ApprovalDecisionLabelledByTrust(yolo, level, risk_level, checklist_passed) ==
    LET approved == IF yolo THEN YoloApproved(checklist_passed)
                    ELSE StandardApproved(
                             CheckTrustAuthorization(level, risk_level),
                             checklist_passed)
        mode == IF yolo THEN "yolo"
                ELSE IF CheckTrustAuthorization(level, risk_level)
                     THEN "trust_based" ELSE "manual_required"
    IN [approved |-> approved, mode |-> mode]

\* the approved and mode of request_approval, from the manager's mode and
\* trust level, the risk string and the checklist result
ApprovalDecision(yolo, level, risk_level, checklist_passed) ==
    LET approved == IF yolo THEN YoloApproved(checklist_passed)
                    ELSE StandardApproved(
                             CheckTrustAuthorization(level, risk_level),
                             checklist_passed)
        mode == IF yolo THEN "yolo"
                ELSE IF approved THEN "trust_based" ELSE "manual_required"
    IN [approved |-> approved, mode |-> mode]

\* approval_record of request_approval (timestamp and reason text left out)
ApprovalRecord(action, phase, artifacts, risk_level) ==
    LET checklist_passed == AllPassed(phase, artifacts)
        decision == ApprovalDecision(yolo_mode, trust_level, risk_level,
                                     checklist_passed)
    IN [action |-> action, phase |-> phase, approved |-> decision.approved,
        mode |-> decision.mode, risk_level |-> risk_level,
        trust_level |-> TrustName(trust_level),
        checklist_passed |-> checklist_passed, yolo_mode |-> yolo_mode]

\* the last call made on the manager: what it returned (for the two calls
\* that return a boolean, next to the name they were asked about), or the
\* error it raised with the phase name its message carries
GCall(op, raised, value) == [op |-> op, raised |-> raised, value |-> value]

ApprovalRoom == Len(approval_log) < MaxApprovalLog

\* a validate_phase that records an unknown phase as failed
ValidatePhaseFailingUnknown(phase, artifacts) ==
    /\ IF UnknownPhase(phase)
       THEN /\ validation_results' = Put(validation_results, phase, "failed")
            /\ glast' = GCall("validate_phase", "none",
                              [phase |-> phase, all_passed |-> FALSE])
       ELSE /\ validation_results' = ResultsAfter(phase, artifacts)
            /\ glast' = GCall("validate_phase", "none",
                              [phase |-> phase,
                               all_passed |-> AllPassed(phase, artifacts)])
    /\ UNCHANGED <<yolo_mode, trust_level, approval_log, besideGov>>

\* ChecklistEnforcer.validate_phase, called on manager.checklist_enforcer
ValidatePhase(phase, artifacts) ==
    /\ IF UnknownPhase(phase)
       THEN /\ glast' = GCall("validate_phase", "ValueError", phase)
            /\ UNCHANGED validation_results
       ELSE /\ validation_results' = ResultsAfter(phase, artifacts)
            /\ glast' = GCall("validate_phase", "none",
                              [phase |-> phase,
                               all_passed |-> AllPassed(phase, artifacts)])
    /\ UNCHANGED <<yolo_mode, trust_level, approval_log, besideGov>>

\* a request_approval that keeps no record of a refusal
RequestApprovalLoggingApprovalsOnly(action, phase, artifacts, risk_level) ==
    /\ IF UnknownPhase(phase)
       THEN /\ glast' = GCall("request_approval", "ValueError", phase)
            /\ UNCHANGED <<validation_results, approval_log>>
       ELSE /\ ApprovalRoom
            /\ validation_results' = ResultsAfter(phase, artifacts)
            /\ approval_log' =
                   IF ApprovalRecord(action, phase, artifacts, risk_level).approved
                   THEN Append(approval_log,
                               ApprovalRecord(action, phase, artifacts, risk_level))
                   ELSE approval_log
            /\ glast' = GCall("request_approval", "none",
                              ApprovalRecord(action, phase, artifacts, risk_level))
    /\ UNCHANGED <<yolo_mode, trust_level, besideGov>>

\* GovernanceManager.request_approval
RequestApproval(action, phase, artifacts, risk_level) ==
    /\ IF UnknownPhase(phase)
       THEN /\ glast' = GCall("request_approval", "ValueError", phase)
            /\ UNCHANGED <<validation_results, approval_log>>
       ELSE /\ ApprovalRoom
            /\ validation_results' = ResultsAfter(phase, artifacts)
            /\ approval_log' =
                   Append(approval_log,
                          ApprovalRecord(action, phase, artifacts, risk_level))
            /\ glast' = GCall("request_approval", "none",
                              ApprovalRecord(action, phase, artifacts, risk_level))
    /\ UNCHANGED <<yolo_mode, trust_level, besideGov>>

\* a set_yolo_mode that logs only a real change
SetYoloModeSilentWhenSame(enabled) ==
    /\ ApprovalRoom
    /\ yolo_mode' = enabled
    /\ approval_log' =
           IF enabled = yolo_mode THEN approval_log
           ELSE Append(approval_log,
                       [action |-> "yolo_mode_change", previous |-> yolo_mode,
                        current |-> enabled])
    /\ glast' = GCall("set_yolo_mode", "none", "None")
    /\ UNCHANGED <<trust_level, validation_results, besideGov>>

\* GovernanceManager.set_yolo_mode
SetYoloMode(enabled) ==
    /\ ApprovalRoom
    /\ yolo_mode' = enabled
    /\ approval_log' = Append(approval_log,
                              [action |-> "yolo_mode_change", previous |-> yolo_mode,
                               current |-> enabled])
    /\ glast' = GCall("set_yolo_mode", "none", "None")
    /\ UNCHANGED <<trust_level, validation_results, besideGov>>

\* a set_trust_level that restamps the approval records already in the log
SetTrustLevelRestamping(level) ==
    /\ ApprovalRoom
    /\ trust_level' = level
    /\ approval_log' =
           Append([i \in 1..Len(approval_log) |->
                      IF "approved" \in DOMAIN approval_log[i]
                      THEN [approval_log[i] EXCEPT !.trust_level = TrustName(level)]
                      ELSE approval_log[i]],
                  [action |-> "trust_level_change",
                   previous |-> TrustName(trust_level),
                   current |-> TrustName(level)])
    /\ glast' = GCall("set_trust_level", "none", "None")
    /\ UNCHANGED <<yolo_mode, validation_results, besideGov>>

\* GovernanceManager.set_trust_level
SetTrustLevel(level) ==
    /\ ApprovalRoom
    /\ trust_level' = level
    /\ approval_log' = Append(approval_log,
                              [action |-> "trust_level_change",
                               previous |-> TrustName(trust_level),
                               current |-> TrustName(level)])
    /\ glast' = GCall("set_trust_level", "none", "None")
    /\ UNCHANGED <<yolo_mode, validation_results, besideGov>>

\* GovernanceManager._check_trust_authorization called on the manager
CheckTrustAuthorizationCall(risk_level) ==
    /\ glast' = GCall("_check_trust_authorization", "none",
                      [risk_level |-> risk_level,
                       authorized |-> CheckTrustAuthorization(trust_level,
                                                              risk_level)])
    /\ UNCHANGED <<yolo_mode, trust_level, validation_results, approval_log,
                   besideGov>>

\* the four phases and a name that is none of them
PhaseInputs == {"research", "decision", "specification", "implementation", "deployment"}
\* the phases the manager is asked about: two of the four, and the unknown one
GovPhaseInputs == {"research", "implementation", "deployment"}
\* risk strings the manager is asked about: legacy levels first authorized at
\* SUPERVISED, GUIDED and TRUSTED_PARTNER, a pathway, and an unknown string
RiskInputs == {"low", "medium", "critical", "yolo", "extreme"}
ActionInputs == {"proceed"}
\* the five legacy risk levels, the three pathway names and an unknown string
LegacyRisks == {"minimal", "low", "medium", "high", "critical"}
PathwayRisks == {"streamlined", "yolo", "prototype"}
AllRiskInputs == LegacyRisks \cup PathwayRisks \cup {"extreme"}

ArtifactKeys == {"evidence_ids", "evidence_refs", "options", "requirements",
                 "test_files", "tests_passing"}
\* a facts bag that passes every checklist
FullArtifacts ==
    [evidence_ids |-> <<"EVD-0001">>, evidence_refs |-> <<"EVD-0001">>,
     options |-> <<"A">>, requirements |-> <<"R">>, test_files |-> <<"t.py">>,
     tests_passing |-> TRUE]
Without(d, k) == [x \in DOMAIN d \ {k} |-> d[x]]
\* the full bag, the bags that lack one key, one with an empty list, one with a
\* false flag, and the empty bag
ArtifactInputs ==
    {FullArtifacts, EmptyMap}
    \cup {Without(FullArtifacts, k) : k \in ArtifactKeys}
    \cup {[FullArtifacts EXCEPT !.evidence_ids = <<>>],
          [FullArtifacts EXCEPT !.tests_passing = FALSE]}

\* GovernanceManager.__init__ with either mode and any trust level
GovInit ==
    /\ yolo_mode \in BOOLEAN
    /\ trust_level \in TrustLevels
    /\ validation_results = EmptyMap
    /\ approval_log = <<>>
    /\ glast = GCall("init", "none", "None")

GovIdle ==
    /\ yolo_mode = FALSE
    /\ trust_level = SUPERVISED
    /\ validation_results = EmptyMap
    /\ approval_log = <<>>
    /\ glast = GCall("init", "none", "None")

GuardIdle ==
    /\ evidence_files = {}
    /\ spec_files = EmptyMap
    /\ test_files = EmptyMap
    /\ code_files = EmptyMap
    /\ strict_mode = TRUE
    /\ operation_log = <<>>
    /\ last = Call("init", "None", "none")

(***************************************************************************)
(* ContextCurator                                                          *)
(* Relevance scores are counted in hundredths: 20 is 0.2, 100 is 1.0.      *)
(* A timestamp is the name of the call that wrote it last.  The fields of  *)
(* a ContextIndex that no call writes after construction (task scope,      *)
(* modules, endpoints, conventions, created_at) are left out, and so are   *)
(* the item_type, content and source of a ContextItem.                     *)
(***************************************************************************)
\* the code elements _scan_project found, in the order it added them: a
\* class, a function that uses it, and a function that calls the builtin
\* help, all of module m.py
Elements ==
    <<[node_id |-> "m.py::MyClass", name |-> "MyClass", file_path |-> "m.py",
       dependencies |-> {}],
      [node_id |-> "m.py::helper", name |-> "helper", file_path |-> "m.py",
       dependencies |-> {"MyClass"}],
      [node_id |-> "m.py::runner", name |-> "runner", file_path |-> "m.py",
       dependencies |-> {"help"}]>>

\* str.lower() on the names and focus areas in use
Lower(str) ==
    CASE str = "MyClass" -> "myclass"
      [] str = "Class" -> "class"
      [] OTHER -> str

\* needle in hay, for the names, focus areas and node ids in use
InString(needle, hay) ==
    \/ needle = hay
    \/ <<needle, hay>> \in {<<"Class", "MyClass">>, <<"class", "myclass">>,
                            <<"MyClass", "m.py::MyClass">>,
                            <<"Class", "m.py::MyClass">>,
                            <<"helper", "m.py::helper">>,
                            <<"help", "m.py::helper">>,
                            <<"help", "helper">>,
                            <<"runner", "m.py::runner">>}

\* DependencyGraph.edges after _scan_project: element i depends on the nodes,
\* among those added so far, whose id holds one of its dependency names
Edges(i) ==
    {k \in 1..i : \E dep \in Elements[i].dependencies :
                      InString(dep, Elements[k].node_id)}

\* DependencyGraph.get_dependencies
RECURSIVE GetDependencies(_, _)
GetDependencies(i, depth) ==
    IF depth <= 0 THEN {}
    ELSE Edges(i) \cup
         (IF depth > 1
          THEN UNION {GetDependencies(k, depth - 1) : k \in Edges(i)}
          ELSE {})

\* DependencyGraph.find_related
FindRelated(target_name) ==
    {i \in 1..Len(Elements) :
        \/ InString(target_name, Elements[i].name)
        \/ target_name \in Elements[i].dependencies}

\* the elements of a set of indices as a list; the model lists them in scan
\* order where Python iterates over a set
RECURSIVE InScanOrder(_)
InScanOrder(S) ==
    IF S = {} THEN <<>>
    ELSE LET i == CHOOSE x \in S : \A y \in S : x <= y
         IN <<Elements[i]>> \o InScanOrder(S \ {i})

\* ContextCurator.find_related_code with max_depth = 2
FindRelatedCode(target) ==
    InScanOrder(FindRelated(target)
                \cup UNION {GetDependencies(i, 2) : i \in FindRelated(target)})

\* ' '.join(element.dependencies).lower(), for sets of at most one name
JoinedDependencies(element) ==
    IF element.dependencies = {} THEN ""
    ELSE Lower(CHOOSE d \in element.dependencies : TRUE)

\* ContextCurator._calculate_initial_relevance
CalculateInitialRelevance(element, focus_areas) ==
    IF \E i \in 1..Len(focus_areas) : Lower(element.name) = Lower(focus_areas[i])
    THEN 100
    ELSE IF \E i \in 1..Len(focus_areas) :
                InString(Lower(focus_areas[i]), Lower(element.name))
    THEN 80
    ELSE IF \E i \in 1..Len(focus_areas) :
                InString(Lower(focus_areas[i]), JoinedDependencies(element))
    THEN 60
    ELSE 40

\* ContextItem(...) as build_context_index creates it
ContextItem(element, focus_areas) ==
    [item_id |-> element.node_id,
     relevance_score |-> CalculateInitialRelevance(element, focus_areas),
     last_evaluated |-> "created"]

\* the elements build_context_index finds, focus area by focus area
RECURSIVE ElementsFor(_)
ElementsFor(focus_areas) ==
    IF focus_areas = <<>> THEN <<>>
    ELSE FindRelatedCode(Head(focus_areas)) \o ElementsFor(Tail(focus_areas))

\* context_items of build_context_index
ItemsFor(focus_areas) ==
    [i \in 1..Len(ElementsFor(focus_areas)) |->
        ContextItem(ElementsFor(focus_areas)[i], focus_areas)]

\* list(related_files), for elements of at most one file
RelatedFiles(focus_areas) ==
    LET related_files == {ElementsFor(focus_areas)[i].file_path :
                             i \in 1..Len(ElementsFor(focus_areas))}
    IN IF related_files = {} THEN <<>>
       ELSE <<CHOOSE f \in related_files : TRUE>>

\* "CTX-" + task_id
CtxId(task_id) ==
    CASE task_id = "T1" -> "CTX-T1"
      [] task_id = "T2" -> "CTX-T2"

\* ContextIndex(...) as build_context_index fills it
NewContextIndex(task_id, focus_areas, decision_refs, spec_refs) ==
    [task_id |-> task_id,
     files |-> RelatedFiles(focus_areas),
     decision_refs |-> decision_refs,
     spec_refs |-> spec_refs,
     assumptions |-> <<>>,
     provisional_assumptions |-> <<>>,
     upstream_tasks |-> <<>>,
     downstream_tasks |-> <<>>,
     parallel_work |-> <<>>,
     change_history |-> <<>>,
     context_items |-> ItemsFor(focus_areas),
     last_updated |-> "created",
     last_evaluated |-> "None"]

\* the last call on the curator
CCall(op, args, ret) == [op |-> op, args |-> args, ret |-> ret]

\* number of change-history entries all indexes together may hold before the
\* model stops
MaxHistory == 2
\* number of assumptions and task links all indexes together may hold before
\* the model stops
MaxNotes == 1

RECURSIVE SumOver(_, _)
SumOver(S, f) ==
    IF S = {} THEN 0
    ELSE LET x == CHOOSE y \in S : TRUE IN f[x] + SumOver(S \ {x}, f)

TotalHistory ==
    SumOver(DOMAIN context_indexes,
            [c \in DOMAIN context_indexes |->
                Len(context_indexes[c].change_history)])
TotalNotes ==
    SumOver(DOMAIN context_indexes,
            [c \in DOMAIN context_indexes |->
                Len(context_indexes[c].assumptions)
                + Len(context_indexes[c].provisional_assumptions)
                + Len(context_indexes[c].upstream_tasks)
                + Len(context_indexes[c].downstream_tasks)
                + Len(context_indexes[c].parallel_work)])
HistoryRoom(n) == TotalHistory + n <= MaxHistory
NotesRoom == TotalNotes < MaxNotes

\* ContextCurator.build_context_index
BuildContextIndex(task_id, focus_areas, decision_refs, spec_refs) ==
    /\ context_indexes' =
           Put(context_indexes, CtxId(task_id),
               NewContextIndex(task_id, focus_areas, decision_refs, spec_refs))
    /\ clast' = CCall("build_context_index",
                      [ctx_id |-> CtxId(task_id), focus_areas |-> focus_areas],
                      CtxId(task_id))
    /\ UNCHANGED besideCurator

\* an evaluation that keeps only the items above the threshold
KeepAbove(item) == item.relevance_score > 20

\* an evaluation with a retention threshold of 0.1
KeepFromTenth(item) == ~(item.relevance_score < 10)

\* keep of _evaluate_context_item
Keep(item) == ~(item.relevance_score < 20)

\* the ids of the items a list loses in evaluate_context_on_turn, one
\* recommendation each
RECURSIVE Recommendations(_)
Recommendations(items) ==
    IF items = <<>> THEN <<>>
    ELSE (IF Keep(Head(items)) THEN <<>> ELSE <<Head(items).item_id>>)
         \o Recommendations(Tail(items))

\* results of evaluate_context_on_turn
EvaluationResults(items) ==
    [evaluated |-> Len(items),
     removed |-> Len(items) - Len(SelectSeq(items, Keep)),
     kept |-> Len(SelectSeq(items, Keep)),
     recommendations |-> Recommendations(items)]

\* an evaluation that drops the oldest of the items it keeps
ItemsToKeepButOldest(items) ==
    IF SelectSeq(items, Keep) = <<>> THEN <<>> ELSE Tail(SelectSeq(items, Keep))

\* items_to_keep of evaluate_context_on_turn
ItemsToKeep(items) == SelectSeq(items, Keep)

\* ContextCurator.evaluate_context_on_turn
EvaluateContextOnTurn(ctx_id) ==
    /\ IF ctx_id \notin DOMAIN context_indexes
       THEN /\ clast' = CCall("evaluate_context_on_turn", [ctx_id |-> ctx_id],
                              [error |-> "Context index not found"])
            /\ UNCHANGED context_indexes
       ELSE /\ context_indexes' =
                   [context_indexes EXCEPT
                       ![ctx_id].last_evaluated = "evaluate_context_on_turn",
                       ![ctx_id].context_items = ItemsToKeep(@)]
            /\ clast' = CCall("evaluate_context_on_turn", [ctx_id |-> ctx_id],
                              EvaluationResults(context_indexes[ctx_id].context_items))
    /\ UNCHANGED besideCurator

\* the range test of score_context_item without its upper end
ScoreInRangeNoCeiling(new_score) == 0 <= new_score

\* 0.0 <= new_score <= 1.0
ScoreInRange(new_score) == 0 <= new_score /\ new_score <= 100

\* the positions of the items with this id
Positions(items, item_id) == {i \in 1..Len(items) : items[i].item_id = item_id}

\* the item score_context_item writes: the first with this id
FirstPosition(items, item_id) ==
    CHOOSE i \in Positions(items, item_id) :
        \A j \in Positions(items, item_id) : i <= j

\* score_context_item returns True
ScoreAccepted(ctx_id, item_id, new_score) ==
    /\ ctx_id \in DOMAIN context_indexes
    /\ ScoreInRange(new_score)
    /\ Positions(context_indexes[ctx_id].context_items, item_id) # {}

\* a score_context_item that rescores every item with this id
ScoreContextItemEveryMatch(ctx_id, item_id, new_score) ==
    /\ context_indexes' =
           IF ScoreAccepted(ctx_id, item_id, new_score)
           THEN [context_indexes EXCEPT
                    ![ctx_id].context_items =
                        [i \in 1..Len(@) |->
                            IF @[i].item_id = item_id
                            THEN [@[i] EXCEPT !.relevance_score = new_score,
                                              !.last_evaluated = "score_context_item"]
                            ELSE @[i]]]
           ELSE context_indexes
    /\ clast' = CCall("score_context_item",
                      [ctx_id |-> ctx_id, item_id |-> item_id,
                       new_score |-> new_score],
                      ScoreAccepted(ctx_id, item_id, new_score))
    /\ UNCHANGED besideCurator

\* ContextCurator.score_context_item
ScoreContextItem(ctx_id, item_id, new_score) ==
    /\ context_indexes' =
           IF ScoreAccepted(ctx_id, item_id, new_score)
           THEN [context_indexes EXCEPT
                    ![ctx_id].context_items[
                        FirstPosition(context_indexes[ctx_id].context_items,
                                      item_id)] =
                        [@ EXCEPT !.relevance_score = new_score,
                                  !.last_evaluated = "score_context_item"]]
           ELSE context_indexes
    /\ clast' = CCall("score_context_item",
                      [ctx_id |-> ctx_id, item_id |-> item_id,
                       new_score |-> new_score],
                      ScoreAccepted(ctx_id, item_id, new_score))
    /\ UNCHANGED besideCurator

\* a reference update that appends without looking
AppendAlways(refs, affected_items) == refs \o affected_items

\* for x in affected_items: if x not in refs: refs.append(x)
RECURSIVE AppendNew(_, _)
AppendNew(refs, affected_items) ==
    IF affected_items = <<>> THEN refs
    ELSE AppendNew(IF \E i \in 1..Len(refs) : refs[i] = Head(affected_items)
                   THEN refs
                   ELSE Append(refs, Head(affected_items)),
                   Tail(affected_items))

\* the sequence number in the change id that update_context_on_change makes
SequenceNumber(ctx_index) == Len(ctx_index.change_history) + 1

\* change_entry of update_context_on_change; the change id
\* CTX-<date>-<number> is the pair of its date and its number
ChangeEntry(ctx_index, change_type, description, affected_items) ==
    [change_id |-> [date |-> today, seq |-> SequenceNumber(ctx_index)],
     date |-> today,
     change_type |-> change_type,
     description |-> description,
     affected_items |-> affected_items]

\* a ContextIndex after update_context_on_change
IndexAfterChange(ctx_index, change_type, description, affected_items) ==
    LET logged == [ctx_index EXCEPT
                      !.change_history =
                          Append(@, ChangeEntry(ctx_index, change_type,
                                                description, affected_items)),
                      !.last_updated = "update_context_on_change"]
    IN IF change_type = "decision"
       THEN [logged EXCEPT !.decision_refs = AppendNew(@, affected_items)]
       ELSE IF change_type = "spec"
       THEN [logged EXCEPT !.spec_refs = AppendNew(@, affected_items)]
       ELSE IF change_type = "file"
       THEN [logged EXCEPT !.files = AppendNew(@, affected_items)]
       ELSE logged

\* ContextCurator.update_context_on_change; affected_items = None is the
\* empty list
UpdateContextOnChange(ctx_id, change_type, description, affected_items) ==
    /\ IF ctx_id \notin DOMAIN context_indexes
       THEN UNCHANGED context_indexes
       ELSE /\ HistoryRoom(1)
            /\ context_indexes' =
                   [context_indexes EXCEPT
                       ![ctx_id] = IndexAfterChange(@, change_type, description,
                                                    affected_items)]
    /\ clast' = CCall("update_context_on_change",
                      [ctx_id |-> ctx_id, change_type |-> change_type,
                       affected_items |-> affected_items],
                      ctx_id \in DOMAIN context_indexes)
    /\ UNCHANGED besideCurator

\* a propagation that reaches every index
ShouldUpdateAll(ctx_index, change_type, changed_id) ==
    change_type \in {"decision", "spec", "file"}

\* should_update of propagate_update
ShouldUpdate(ctx_index, change_type, changed_id) ==
    \/ change_type = "decision"
         /\ \E i \in 1..Len(ctx_index.decision_refs) :
                ctx_index.decision_refs[i] = changed_id
    \/ change_type = "spec"
         /\ \E i \in 1..Len(ctx_index.spec_refs) :
                ctx_index.spec_refs[i] = changed_id
    \/ change_type = "file"
         /\ \E i \in 1..Len(ctx_index.files) : ctx_index.files[i] = changed_id

\* updated_contexts of propagate_update, as the set of its entries
UpdatedContexts(change_type, changed_id) ==
    {c \in DOMAIN context_indexes :
        ShouldUpdate(context_indexes[c], change_type, changed_id)}

\* f"Propagated update from {changed_id}"
PropagatedDescription(changed_id) ==
    CASE changed_id = "DEC-0001" -> "Propagated update from DEC-0001"
      [] changed_id = "m.py" -> "Propagated update from m.py"
      [] OTHER -> "Propagated update from another id"

\* ContextCurator.propagate_update
PropagateUpdate(change_type, changed_id) ==
    /\ HistoryRoom(Cardinality(UpdatedContexts(change_type, changed_id)))
    /\ context_indexes' =
           [c \in DOMAIN context_indexes |->
               IF c \in UpdatedContexts(change_type, changed_id)
               THEN IndexAfterChange(context_indexes[c], change_type,
                                     PropagatedDescription(changed_id),
                                     <<changed_id>>)
               ELSE context_indexes[c]]
    /\ clast' = CCall("propagate_update",
                      [change_type |-> change_type, changed_id |-> changed_id],
                      UpdatedContexts(change_type, changed_id))
    /\ UNCHANGED besideCurator

\* ContextCurator.add_assumption
AddAssumption(ctx_id, assumption, provisional) ==
    /\ IF ctx_id \notin DOMAIN context_indexes
       THEN UNCHANGED context_indexes
       ELSE /\ NotesRoom
            /\ context_indexes' =
                   IF provisional
                   THEN [context_indexes EXCEPT
                            ![ctx_id].provisional_assumptions =
                                Append(@, assumption),
                            ![ctx_id].last_updated = "add_assumption"]
                   ELSE [context_indexes EXCEPT
                            ![ctx_id].assumptions = Append(@, assumption),
                            ![ctx_id].last_updated = "add_assumption"]
    /\ clast' = CCall("add_assumption", [ctx_id |-> ctx_id],
                      ctx_id \in DOMAIN context_indexes)
    /\ UNCHANGED besideCurator

\* a ContextIndex after add_dependency with one of the three bucket names
WithDependency(ctx_index, dependency_type, task_ref) ==
    LET linked ==
            IF dependency_type = "upstream"
            THEN [ctx_index EXCEPT !.upstream_tasks = Append(@, task_ref)]
            ELSE IF dependency_type = "downstream"
            THEN [ctx_index EXCEPT !.downstream_tasks = Append(@, task_ref)]
            ELSE [ctx_index EXCEPT !.parallel_work = Append(@, task_ref)]
    IN [linked EXCEPT !.last_updated = "add_dependency"]

\* ContextCurator.add_dependency
AddDependency(ctx_id, dependency_type, task_ref) ==
    /\ IF ctx_id \notin DOMAIN context_indexes
          \/ dependency_type \notin {"upstream", "downstream", "parallel"}
       THEN UNCHANGED context_indexes
       ELSE /\ NotesRoom
            /\ context_indexes' =
                   [context_indexes EXCEPT
                       ![ctx_id] = WithDependency(@, dependency_type, task_ref)]
    /\ clast' = CCall("add_dependency",
                      [ctx_id |-> ctx_id, dependency_type |-> dependency_type],
                      /\ ctx_id \in DOMAIN context_indexes
                      /\ dependency_type \in {"upstream", "downstream", "parallel"})
    /\ UNCHANGED besideCurator

\* ContextCurator.__init__: no index yet
CuratorInit ==
    /\ context_indexes = EmptyMap
    /\ clast = CCall("init", "None", "None")
    /\ today = 1

\* number of dates the model lets pass
MaxDay == 2

\* the UTC date changes
Midnight ==
    /\ today < MaxDay
    /\ today' = today + 1
    /\ UNCHANGED besideClock

\* the tasks an index is built for, and the id of an index that is never built
TaskIds == {"T1", "T2"}
CtxInputs == {"CTX-T1", "CTX-T2", "CTX-T9"}
\* focus areas that find nothing, one element by part of its name, twice the
\* same element, an element and the one that names it, an element and the one
\* it depends on
FocusInputs == {<<>>, <<"Class">>, <<"Class", "Class">>, <<"MyClass">>, <<"helper">>}
\* the ids of both elements and an id no element has
ItemIdInputs == {"m.py::MyClass", "m.py::helper", "m.py::absent"}
\* scores below the range, at its ends, on either side of the retention
\* threshold, and above the range
ScoreInputs == {-1, 0, 19, 20, 100, 101}

\* the indexes that are built: the first task over every focus list, the
\* second over one
BuildInputs ==
    ({"T1"} \X FocusInputs) \cup {<<"T2", <<"Class">> >>}

\* the calls on a curator that build, rescore and evaluate items
CuratorItemsNext ==
    \/ \E b \in BuildInputs : BuildContextIndex(b[1], b[2], <<>>, <<>>)
    \/ \E c \in CtxInputs, i \in ItemIdInputs, sc \in ScoreInputs :
           ScoreContextItem(c, i, sc)
    \/ \E c \in CtxInputs : EvaluateContextOnTurn(c)

\* the change types: the three that update a reference list and one that does not
ChangeTypeInputs == {"decision", "spec", "file", "api"}
\* the affected items of a change: none, and the same id twice
AffectedInputs == {<<>>, <<"DEC-0001", "DEC-0001">>}
\* the ids a propagation is asked about
ChangedIdInputs == {"DEC-0001", "m.py"}

\* the calls on a curator that build indexes and record changes
CuratorChangesNext ==
    \/ \E t \in TaskIds, f \in {<<>>, <<"Class">>},
          d \in {<<>>, <<"DEC-0001">>} : BuildContextIndex(t, f, d, <<>>)
    \/ \E c \in CtxInputs, ct \in ChangeTypeInputs, a \in AffectedInputs :
           UpdateContextOnChange(c, ct, "d", a)
    \/ \E ct \in ChangeTypeInputs, id \in ChangedIdInputs : PropagateUpdate(ct, id)

\* focus areas that reach every tier: an element by name, by part of its name,
\* by the name of a dependency, through an edge only
RelevanceFocusInputs ==
    {<<>>, <<"Class">>, <<"MyClass">>, <<"helper">>, <<"runner">>,
     <<"runner", "Class">>, <<"Class", "MyClass">>, <<"MyClass", "Class">>}

\* builds over those focus areas, and evaluations
CuratorRelevanceNext ==
    \/ \E t \in TaskIds, f \in RelevanceFocusInputs :
           BuildContextIndex(t, f, <<>>, <<>>)
    \/ \E c \in CtxInputs : EvaluateContextOnTurn(c)

\* builds and changes over several dates
CuratorDatesNext ==
    \/ \E b \in {<<"T1", <<"Class">> >>, <<"T2", <<"helper">> >>} :
           BuildContextIndex(b[1], b[2], <<>>, <<>>)
    \/ \E c \in CtxInputs, ct \in {"api", "file"}, a \in AffectedInputs :
           UpdateContextOnChange(c, ct, "d", a)
    \/ Midnight

\* every call on a curator, over one focus list per task, one reference and
\* scores below the threshold and beyond the range
CuratorNext ==
    \/ \E b \in {<<"T1", <<"helper">> >>, <<"T2", <<"Class">> >>} :
           BuildContextIndex(b[1], b[2], <<"DEC-0001">>, <<>>)
    \/ \E c \in CtxInputs, sc \in {19, 101} :
           ScoreContextItem(c, "m.py::MyClass", sc)
    \/ \E c \in CtxInputs : EvaluateContextOnTurn(c)
    \/ \E c \in CtxInputs :
           UpdateContextOnChange(c, "decision", "d", <<"DEC-0002">>)
    \/ PropagateUpdate("decision", "DEC-0001")
    \/ \E c \in CtxInputs : AddAssumption(c, "a", FALSE)
    \/ \E c \in CtxInputs, dt \in {"upstream", "sideways"} :
           AddDependency(c, dt, "T3")

(***************************************************************************)
(* TemplateManager.generate_artifact_id and ResearchHarvester              *)
(* An artifact id is the sequence of its characters.                       *)
(***************************************************************************)
DigitChars == <<"0", "1", "2", "3", "4", "5", "6", "7", "8", "9">>
IsDigit(ch) == \E i \in 1..10 : DigitChars[i] = ch
DigitValue(ch) == (CHOOSE i \in 1..10 : DigitChars[i] = ch) - 1

\* re.match(rf"{artifact_type}-(\d+)", aid) finds a match
Matches(artifact_type, aid) ==
    /\ Len(aid) >= Len(artifact_type) + 2
    /\ SubSeq(aid, 1, Len(artifact_type)) = artifact_type
    /\ aid[Len(artifact_type) + 1] = "-"
    /\ IsDigit(aid[Len(artifact_type) + 2])

\* the end of the run of digits that starts at position `from`
RECURSIVE DigitsEnd(_, _)
DigitsEnd(aid, from) ==
    IF from < Len(aid) /\ IsDigit(aid[from + 1]) THEN DigitsEnd(aid, from + 1)
    ELSE from

\* match.group(1): the digits after the dash
Group1(artifact_type, aid) ==
    SubSeq(aid, Len(artifact_type) + 2, DigitsEnd(aid, Len(artifact_type) + 2))

\* int(digits)
RECURSIVE ToInt(_)
ToInt(digits) ==
    IF digits = <<>> THEN 0
    ELSE 10 * ToInt(SubSeq(digits, 1, Len(digits) - 1))
         + DigitValue(digits[Len(digits)])

\* numbers of generate_artifact_id, as a set
Numbers(artifact_type, existing_ids) ==
    {ToInt(Group1(artifact_type, aid)) :
        aid \in {x \in existing_ids : Matches(artifact_type, x)}}

SetMax(S) == CHOOSE x \in S : \A y \in S : y <= x

\* a next number that counts the ids instead of taking the largest
NextNumByCount(numbers) == Cardinality(numbers) + 1

\* a next number that fills the first gap
NextNumFirstGap(numbers) ==
    CHOOSE n \in 1..(Cardinality(numbers) + 1) :
        n \notin numbers /\ \A m \in 1..(n - 1) : m \in numbers

\* next_num of generate_artifact_id
NextNum(numbers) == IF numbers = {} THEN 1 ELSE SetMax(numbers) + 1

\* str(n) for n >= 0
RECURSIVE Decimal(_)
Decimal(n) ==
    IF n < 10 THEN <<DigitChars[n + 1]>>
    ELSE Decimal(n \div 10) \o <<DigitChars[(n % 10) + 1]>>

\* f"{n:04d}"
RECURSIVE ZeroPadded(_, _)
ZeroPadded(digits, width) ==
    IF Len(digits) >= width THEN digits
    ELSE ZeroPadded(<<"0">> \o digits, width)

\* TemplateManager.generate_artifact_id; existing_ids as the set of its entries
GenerateArtifactId(artifact_type, existing_ids) ==
    artifact_type \o <<"-">>
        \o ZeroPadded(Decimal(NextNum(Numbers(artifact_type, existing_ids))), 4)

\* a call, the type and the ids it handed to generate_artifact_id, and its
\* outcome: the id returned, or the exception raised
HCall(op, artifact_type, existing_ids, ret, raised) ==
    [op |-> op, artifact_type |-> artifact_type, existing_ids |-> existing_ids,
     ret |-> ret, raised |-> raised]

\* TemplateManager.generate_artifact_id called directly
GenerateArtifactIdCall(artifact_type, existing_ids) ==
    /\ hlast' = HCall("generate_artifact_id", artifact_type, existing_ids,
                      GenerateArtifactId(artifact_type, existing_ids), "None")
    /\ UNCHANGED <<evidence_registry, besideHarvester>>

\* number of ids the registry may hold before the model stops
MaxRegistry == 4

EVD == <<"E", "V", "D">>
DEC == <<"D", "E", "C">>

\* ResearchHarvester.harvest: an empty topic raises before an id is made, a
\* failure to load the template or to write the file raises before the id is
\* registered
Harvest(topic_given, io_ok) ==
    /\ Cardinality(evidence_registry) < MaxRegistry
    /\ IF ~topic_given
       THEN /\ hlast' = HCall("harvest", <<>>, {}, <<>>, "ValueError")
            /\ UNCHANGED evidence_registry
       ELSE IF ~io_ok
       THEN /\ hlast' = HCall("harvest", EVD, evidence_registry, <<>>, "OSError")
            /\ UNCHANGED evidence_registry
       ELSE /\ evidence_registry' =
                   evidence_registry
                       \cup {GenerateArtifactId(EVD, evidence_registry)}
            /\ hlast' = HCall("harvest", EVD, evidence_registry,
                              GenerateArtifactId(EVD, evidence_registry), "None")
    /\ UNCHANGED besideHarvester

\* ids as characters
Id(artifact_type, digits) == artifact_type \o <<"-">> \o digits
\* the stems of the EVD-*.md files the output directory may hold at start:
\* the first and the third id, and an id with a suffix
RegistryInputs ==
    {Id(EVD, <<"0", "0", "0", "1">>), Id(EVD, <<"0", "0", "0", "3">>),
     Id(EVD, <<"0", "0", "0", "2", "-", "v", "2">>)}
\* the ids a caller may list: those, an id of another type, one in lower
\* case, one of two digits, and the last id of four digits
ExistingInputs ==
    RegistryInputs
    \cup {Id(DEC, <<"0", "0", "0", "7">>), Id(<<"e", "v", "d">>, <<"0", "0", "0", "5">>),
          Id(EVD, <<"1", "2">>), Id(EVD, <<"9", "9", "9", "9">>)}

\* ResearchHarvester.__init__ and _load_existing_evidence
HarvesterInit ==
    /\ evidence_registry \in SUBSET RegistryInputs
    /\ hlast = HCall("init", <<>>, {}, <<>>, "None")

HarvesterIdle ==
    /\ evidence_registry = {}
    /\ hlast = HCall("init", <<>>, {}, <<>>, "None")

\* the calls on a harvester and on its template manager
HarvestNext ==
    \/ \E topic_given \in BOOLEAN, io_ok \in BOOLEAN : Harvest(topic_given, io_ok)
    \/ \E t \in {EVD, DEC}, ex \in SUBSET ExistingInputs :
           GenerateArtifactIdCall(t, ex)

(***************************************************************************)
(* ResearchHarvester.require_evidence_for_artifact and PromptOptimizer     *)
(***************************************************************************)
SPEC == <<"S", "P", "E", "C">>
REQ == <<"R", "E", "Q">>
TST == <<"T", "E", "S", "T">>

\* the first return of require_evidence_for_artifact: a user requirement
\* without references
WaivedForUser(artifact_type, evidence_refs, is_user_requirement) ==
    is_user_requirement /\ artifact_type = REQ /\ evidence_refs = <<>>

\* the first raise: a DEC, SPEC or REQ without references
MissingEvidence(artifact_type, evidence_refs, is_user_requirement) ==
    /\ artifact_type \in {DEC, SPEC, REQ}
    /\ evidence_refs = <<>>
    /\ ~is_user_requirement

\* invalid_refs: the references that validate_evidence_exists refuses
InvalidEvidenceRefs(evidence_refs) ==
    SelectSeq(evidence_refs, LAMBDA ref : ref \notin evidence_registry)

\* require_evidence_for_artifact: TRUE when it returns True, FALSE when it
\* raises ValueError
RequireEvidenceForArtifact(artifact_type, evidence_refs, is_user_requirement) ==
    IF WaivedForUser(artifact_type, evidence_refs, is_user_requirement) THEN TRUE
    ELSE IF MissingEvidence(artifact_type, evidence_refs, is_user_requirement)
    THEN FALSE
    ELSE InvalidEvidenceRefs(evidence_refs) = <<>>

\* a call, what it was asked, the registry it found, and its outcome: whether
\* it returned, the id it returned if it makes one, the exception it raised
OCall(op, artifact_type, evidence_refs, is_user_requirement, returned, id) ==
    [op |-> op, artifact_type |-> artifact_type, evidence_refs |-> evidence_refs,
     is_user_requirement |-> is_user_requirement,
     registry |-> evidence_registry, returned |-> returned,
     id |-> id, raised |-> IF returned THEN "None" ELSE "ValueError"]

\* ResearchHarvester.require_evidence_for_artifact called directly
RequireEvidenceForArtifactCall(artifact_type, evidence_refs, is_user_requirement) ==
    /\ olast' = OCall("require_evidence_for_artifact", artifact_type,
                      evidence_refs, is_user_requirement,
                      RequireEvidenceForArtifact(artifact_type, evidence_refs,
                                                 is_user_requirement),
                      <<>>)
    /\ UNCHANGED <<workflow_state, harvesterVars, besideOptimizer>>

\* number of decisions and specifications stored before the model stops
MaxArtifacts == 2

ArtifactRoom ==
    Len(workflow_state.decisions) + Len(workflow_state.specifications)
        < MaxArtifacts

\* the ids of the stored artifacts
IdsOf(artifacts) == {artifacts[i].id : i \in 1..Len(artifacts)}

\* PromptOptimizer.create_decision_with_evidence; title, options, choice and
\* rationale are stored and not read
CreateDecisionWithEvidence(evidence_refs) ==
    /\ ArtifactRoom
    /\ LET ok == RequireEvidenceForArtifact(DEC, evidence_refs, FALSE)
           dec_id == GenerateArtifactId(DEC, IdsOf(workflow_state.decisions))
       IN IF ~ok
          THEN /\ olast' = OCall("create_decision_with_evidence", DEC,
                                 evidence_refs, FALSE, FALSE, <<>>)
               /\ UNCHANGED workflow_state
          ELSE /\ workflow_state' =
                      [workflow_state EXCEPT !.decisions =
                          Append(@, [id |-> dec_id,
                                     evidence_refs |-> evidence_refs])]
               /\ olast' = OCall("create_decision_with_evidence", DEC,
                                 evidence_refs, FALSE, TRUE, dec_id)
    /\ UNCHANGED <<harvesterVars, besideOptimizer>>

\* PromptOptimizer.create_spec_with_traceability; the decision references
\* are stored unchecked
CreateSpecWithTraceability(evidence_refs, decision_refs) ==
    /\ ArtifactRoom
    /\ LET ok == RequireEvidenceForArtifact(SPEC, evidence_refs, FALSE)
           spec_id == GenerateArtifactId(SPEC, IdsOf(workflow_state.specifications))
       IN IF ~ok
          THEN /\ olast' = OCall("create_spec_with_traceability", SPEC,
                                 evidence_refs, FALSE, FALSE, <<>>)
               /\ UNCHANGED workflow_state
          ELSE /\ workflow_state' =
                      [workflow_state EXCEPT !.specifications =
                          Append(@, [id |-> spec_id,
                                     evidence_refs |-> evidence_refs,
                                     decision_refs |-> decision_refs])]
               /\ olast' = OCall("create_spec_with_traceability", SPEC,
                                 evidence_refs, FALSE, TRUE, spec_id)
    /\ UNCHANGED <<harvesterVars, besideOptimizer>>

\* PromptOptimizer.__init__
OptimizerInit ==
    /\ workflow_state = [decisions |-> <<>>, specifications |-> <<>>]
    /\ olast = OCall("init", <<>>, <<>>, FALSE, TRUE, <<>>)

\* the evidence references a caller may give: none, the first id, the second,
\* both
EvidenceRefInputs ==
    {<<>>, <<Id(EVD, <<"0", "0", "0", "1">>)>>, <<Id(EVD, <<"0", "0", "0", "2">>)>>,
     <<Id(EVD, <<"0", "0", "0", "1">>), Id(EVD, <<"0", "0", "0", "2">>)>>}
DecisionRefInputs == {<<>>, <<Id(DEC, <<"0", "0", "0", "1">>)>>}

\* the calls on a PromptOptimizer and on its harvester
OptimizerNext ==
    \/ \E topic_given \in BOOLEAN, io_ok \in BOOLEAN : Harvest(topic_given, io_ok)
    \/ \E t \in {DEC, SPEC, REQ, TST}, refs \in EvidenceRefInputs,
          u \in BOOLEAN : RequireEvidenceForArtifactCall(t, refs, u)
    \/ \E refs \in EvidenceRefInputs : CreateDecisionWithEvidence(refs)
    \/ \E refs \in EvidenceRefInputs, decs \in DecisionRefInputs :
           CreateSpecWithTraceability(refs, decs)

(***************************************************************************)
(* The log queries of SystemGuard and GovernanceManager                    *)
(***************************************************************************)
\* log[-n:] for n > 0
LastEntries(log, n) ==
    SubSeq(log, IF Len(log) > n THEN Len(log) - n + 1 ELSE 1, Len(log))

\* what get_operation_log and get_approval_history return: 'if limit' is
\* false for None and for 0
LogQuery(log, limit) ==
    IF limit.given /\ limit.n # 0 THEN LastEntries(log, limit.n) ELSE log

\* SystemGuard.get_operation_log
GetOperationLog(limit) ==
    /\ last' = Call("get_operation_log", LogQuery(operation_log, limit), limit)
    /\ UNCHANGED <<chain, strict_mode, operation_log, besideGuard>>

\* GovernanceManager.get_approval_history
GetApprovalHistory(limit) ==
    /\ glast' = GCall("get_approval_history", "none",
                      [limit |-> limit, returned |-> LogQuery(approval_log, limit)])
    /\ UNCHANGED <<yolo_mode, trust_level, validation_results, approval_log,
                   besideGov>>

\* limit = None
NoLimit == [given |-> FALSE, n |-> 0]
\* the limits asked for: none, 0, 1, and one beyond the longest log
LimitInputs == {NoLimit} \cup {[given |-> TRUE, n |-> k] : k \in {0, 1, MaxLog + 1}}

\* a guard and a manager that log and are asked for their logs
LogQueryNext ==
    \/ RegisterEvidence("EVD-0001")
    \/ SetStrictMode(TRUE)
    \/ \E b \in BOOLEAN : SetYoloMode(b)
    \/ \E l \in LimitInputs : GetOperationLog(l)
    \/ \E l \in LimitInputs : GetApprovalHistory(l)

\* the calls a client makes on a GovernanceManager
GovNext ==
    \/ \E act \in ActionInputs, p \in GovPhaseInputs, a \in ArtifactInputs,
          r \in RiskInputs : RequestApproval(act, p, a, r)
    \/ \E b \in BOOLEAN : SetYoloMode(b)
    \/ \E l \in TrustLevels : SetTrustLevel(l)

\* authorization checks and approval requests over every risk string, on one
\* phase with a passing and a failing facts bag
AuthNext ==
    \/ \E r \in AllRiskInputs : CheckTrustAuthorizationCall(r)
    \/ \E act \in ActionInputs, a \in {FullArtifacts, EmptyMap},
          r \in AllRiskInputs : RequestApproval(act, "research", a, r)

\* direct validations and approval requests on the same enforcer
PhaseNext ==
    \/ \E p \in PhaseInputs, a \in ArtifactInputs : ValidatePhase(p, a)
    \/ \E act \in ActionInputs, p \in GovPhaseInputs, a \in ArtifactInputs,
          r \in {"low", "medium"} : RequestApproval(act, p, a, r)

\* the calls a client makes on a ChecklistEnforcer
ChecklistNext == \E p \in PhaseInputs, a \in ArtifactInputs : ValidatePhase(p, a)

\* the calls a client makes on a SystemGuard
GuardNext ==
    \/ \E e \in EvdIds : RegisterEvidence(e)
    \/ \E s \in SpecIds, refs \in RefLists(EvdRefInputs) : RegisterSpec(s, refs)
    \/ \E t \in TestIds, refs \in RefLists(SpecIds), st \in StatusInputs :
           RegisterTest(t, refs, st)
    \/ \E c \in CodeFileIds, refs \in RefLists(TestIds), io_ok \in BOOLEAN :
           WriteCode(c, refs, io_ok)
    \/ \E b \in BOOLEAN : SetStrictMode(b)

\* the calls a client makes on a TraceabilityChain
ChainNext ==
    \/ \E e \in EvdIds : ChainRegisterEvidence(e)
    \/ \E s \in SpecIds, refs \in RefLists(EvdRefInputs) : ChainRegisterSpec(s, refs)
    \/ \E t \in TestIds, refs \in RefLists(SpecIds), st \in StatusInputs :
           ChainRegisterTest(t, refs, st)
    \/ \E c \in CodeFileIds, refs \in RefLists(TestIds) : LinkCodeToTest(c, refs)
    \/ \E c \in CodeFileIds : ValidateChainCall(c)

\* the spec references a test may be registered with: none, a registered
\* specification, one that is never registered
TestRefInputs == {<<>>, <<"SPEC-0001">>, <<"SPEC-0002">>}

\* the calls on a chain with one evidence file and one specification
TestStatusNext ==
    \/ ChainRegisterEvidence("EVD-0001")
    \/ \E refs \in {<<>>, <<"EVD-0001">>, <<"EVD-9999">>} :
           ChainRegisterSpec("SPEC-0001", refs)
    \/ \E t \in TestIds, refs \in TestRefInputs, st \in StatusInputs :
           ChainRegisterTest(t, refs, st)
    \/ \E refs \in RefLists(TestIds) : LinkCodeToTest("app.py", refs)
    \/ ValidateChainCall("app.py")

Init == GuardInit /\ GovIdle /\ CuratorInit /\ HarvesterIdle /\ OptimizerInit

Next == GuardNext

\* a SystemGuard under any sequence of calls
Spec == Init /\ [][Next]_vars

\* a TraceabilityChain under any sequence of calls
SpecChain == Init /\ [][ChainNext]_vars

\* a TraceabilityChain whose tests are registered again and again
SpecTestStatus == Init /\ [][TestStatusNext]_vars

\* a GovernanceManager under any sequence of calls
InitGov == GuardIdle /\ GovInit /\ CuratorInit /\ HarvesterIdle /\ OptimizerInit
SpecGov == InitGov /\ [][GovNext]_vars

\* a GovernanceManager asked about every risk string
SpecAuth == InitGov /\ [][AuthNext]_vars

\* GovernanceManager() with its defaults
InitChecklist == GuardIdle /\ GovIdle /\ CuratorInit /\ HarvesterIdle /\ OptimizerInit

\* a default guard and a default manager, with their log queries
SpecLogQuery == InitChecklist /\ [][LogQueryNext]_vars

\* a default GovernanceManager whose enforcer is also called directly
SpecPhase == InitChecklist /\ [][PhaseNext]_vars

\* a ContextCurator over the scanned project, next to an idle guard and manager
InitCurator == GuardIdle /\ GovIdle /\ CuratorInit /\ HarvesterIdle /\ OptimizerInit
SpecCuratorItems == InitCurator /\ [][CuratorItemsNext]_vars
SpecCuratorChanges == InitCurator /\ [][CuratorChangesNext]_vars
SpecCurator == InitCurator /\ [][CuratorNext]_vars
SpecCuratorDates == InitCurator /\ [][CuratorDatesNext]_vars
SpecCuratorRelevance == InitCurator /\ [][CuratorRelevanceNext]_vars

\* a ResearchHarvester over any set of evidence files found at start
InitHarvest == GuardIdle /\ GovIdle /\ CuratorInit /\ HarvesterInit /\ OptimizerInit
SpecHarvest == InitHarvest /\ [][HarvestNext]_vars

\* a PromptOptimizer and its harvester, started on an empty evidence directory
SpecOptimizer == InitCurator /\ [][OptimizerNext]_vars

\* a ChecklistEnforcer under any sequence of calls
SpecChecklist == InitChecklist /\ [][ChecklistNext]_vars

(***************************************************************************)
(* Properties of the traceability chain and the guard                      *)
(***************************************************************************)
\* the backward chain Code -> Test -> Spec -> Evidence of code_file is complete:
\* at least one linked test, every linked test registered with at least one
\* registered spec, every such spec with at least one registered evidence id
ChainComplete(code_file) ==
    /\ code_file \in DOMAIN code_files
    /\ code_files[code_file] # <<>>
    /\ \A t \in Range(code_files[code_file]) :
          /\ t \in DOMAIN test_files
          /\ test_files[t].spec_refs # <<>>
          /\ \A sp \in Range(test_files[t].spec_refs) :
                /\ sp \in DOMAIN spec_files
                /\ spec_files[sp] # <<>>
                /\ Range(spec_files[sp]) \subseteq evidence_files

\* a write_code call that the guard let through to the file system
WriteSucceeded == last.op = "write_code" /\ last.ret = "True"

\* C1: in strict mode every successful write_code(c, content, testRefs) ends
\* with c linked to a complete chain (at least one registered test, each with a
\* registered spec, each with registered evidence).
C1_StrictWriteHasCompleteChain ==
    [][\A c \in CodeFileIds, refs \in RefLists(TestIds), io_ok \in BOOLEAN :
         (strict_mode /\ WriteCode(c, refs, io_ok) /\ last'.ret = "True")
             => ChainComplete(c)']_vars

\* C2: write_code with an empty testRefs list (and a file system that accepts
\* the write) succeeds in relaxed mode, with the chain unchanged, and raises
\* GuardViolation in strict mode.
C2_EmptyRefsRelaxedOkStrictRaises ==
    [][\A c \in CodeFileIds :
         WriteCode(c, <<>>, TRUE)
             => IF strict_mode
                THEN last'.ret = "GuardViolation"
                ELSE last'.ret = "True" /\ UNCHANGED chain]_vars

\* C3: validate_chain(c) returns true exactly when the chain of c is complete
\* and raises GuardViolation in every other case.
C3_ValidateChainIffComplete ==
    [][\A c \in CodeFileIds :
         ValidateChainCall(c)
             => /\ (last'.ret = "True") <=> ChainComplete(c)
                /\ ~ChainComplete(c) => last'.ret = "GuardViolation"]_vars

\* C4: a strict-mode write_code that the link step or the validation step
\* rejects with GuardViolation leaves the traceability chain as it was.
C4_RejectedWriteLeavesChain ==
    [][\A c \in CodeFileIds, refs \in RefLists(TestIds), io_ok \in BOOLEAN :
         (strict_mode /\ WriteCode(c, refs, io_ok)
            /\ last'.ret = "GuardViolation" /\ last'.at # "write")
             => UNCHANGED chain]_vars

\* C5: register_spec(s, refs) raises GuardViolation and leaves the spec map
\* unchanged when some element of refs is not in the evidence set; otherwise
\* spec[s] becomes exactly refs and no other spec changes.
C5_RegisterSpecAllOrNothing ==
    [][\A sp \in SpecIds, refs \in RefLists(EvdRefInputs) :
         (last'.op = "register_spec" /\ ChainRegisterSpec(sp, refs))
             => IF \E r \in Range(refs) : r \notin evidence_files
                THEN last'.ret = "GuardViolation" /\ spec_files' = spec_files
                ELSE /\ last'.ret = "None"
                     /\ DOMAIN spec_files' = DOMAIN spec_files \cup {sp}
                     /\ spec_files'[sp] = refs
                     /\ \A x \in DOMAIN spec_files \ {sp} :
                            spec_files'[x] = spec_files[x]]_vars

\* a register_spec call was refused while a spec registered earlier is kept
C5_Witness ==
    /\ last.op = "register_spec"
    /\ last.ret = "GuardViolation"
    /\ \E sp \in DOMAIN spec_files : spec_files[sp] # <<>>

\* C6: register_test raises GuardViolation and leaves the test map unchanged
\* when some spec reference is not registered, and link_code_to_test raises
\* GuardViolation and leaves the code map unchanged when some test reference is
\* not registered.
C6_TestAndLinkAllOrNothing ==
    [][/\ \A t \in TestIds, refs \in RefLists(SpecIds), st \in StatusInputs :
             (last'.op = "register_test"
                /\ (\E r \in Range(refs) : r \notin DOMAIN spec_files)
                /\ ChainRegisterTest(t, refs, st))
                 => last'.ret = "GuardViolation" /\ test_files' = test_files
       /\ \A c \in CodeFileIds, refs \in RefLists(TestIds) :
             (last'.op = "link_code_to_test"
                /\ (\E r \in Range(refs) : r \notin DOMAIN test_files)
                /\ LinkCodeToTest(c, refs))
                 => last'.ret = "GuardViolation" /\ code_files' = code_files]_vars

\* a link_code_to_test call was refused while an earlier link is kept
C6_Witness ==
    /\ last.op = "link_code_to_test"
    /\ last.ret = "GuardViolation"
    /\ \E c \in DOMAIN code_files : code_files[c] # <<>>

\* C7: in every reachable chain state every evidence id stored under a spec is
\* registered, every spec id stored under a test is registered and every test
\* id stored under a code unit is registered, so validate_chain and
\* get_chain_info never look up a missing test or spec.
C7_ReferentialIntegrity ==
    /\ \A sp \in DOMAIN spec_files : Range(spec_files[sp]) \subseteq evidence_files
    /\ \A t \in DOMAIN test_files :
           Range(test_files[t].spec_refs) \subseteq DOMAIN spec_files
    /\ \A c \in DOMAIN code_files : Range(code_files[c]) \subseteq DOMAIN test_files
    /\ \A c \in CodeFileIds :
           ValidateChain(c) # "KeyError" /\ ~GetChainInfoRaises(c)

\* a code unit linked to two tests over a full chain down to evidence
C7_Witness == ChainComplete("app.py") /\ Len(code_files["app.py"]) = 2

\* C8: in strict mode write_code succeeds only if at least one of the tests
\* linked to the code unit has status 'failing'; stated for the calls that cite
\* at least one test.
C8_StrictWriteNeedsFailingTest ==
    [][\A c \in CodeFileIds, refs \in RefLists(TestIds), io_ok \in BOOLEAN :
         (strict_mode /\ refs # <<>> /\ WriteCode(c, refs, io_ok)
            /\ last'.ret = "True")
             => \E t \in Range(code_files'[c]) : test_files[t].status = "failing"]_vars

\* C9: validate_chain leaves the evidence set and the spec, test and code maps
\* unchanged, when it returns true and when it raises.
C9_ValidateChainReadOnly ==
    [][last'.op = "validate_chain" => UNCHANGED chain]_vars

\* validate_chain raised on a code unit that is linked to a test
C9_Witness ==
    /\ last.op = "validate_chain"
    /\ last.ret = "GuardViolation"
    /\ \E c \in DOMAIN code_files : code_files[c] # <<>>

(***************************************************************************)
(* Properties of the governance manager                                    *)
(***************************************************************************)
\* the entries of the approval log that request_approval wrote
IsApprovalRecord(entry) == "approved" \in DOMAIN entry

\* C10: every approval record in the log with approved = true has
\* checklist_passed = true, in yolo mode and in trust mode.
C10_ApprovedImpliesChecklistPassed ==
    \A i \in 1..Len(approval_log) :
        (IsApprovalRecord(approval_log[i]) /\ approval_log[i].approved)
            => approval_log[i].checklist_passed

\* the log holds a yolo-mode request refused on a failed checklist and a
\* request approved on a passed one
C10_Witness ==
    /\ \E i \in 1..Len(approval_log) :
          /\ IsApprovalRecord(approval_log[i])
          /\ approval_log[i].yolo_mode
          /\ ~approval_log[i].checklist_passed
          /\ ~approval_log[i].approved
    /\ \E i \in 1..Len(approval_log) :
          IsApprovalRecord(approval_log[i]) /\ approval_log[i].approved

\* request_approval was the last call and it returned a record
Returned == glast.op = "request_approval" /\ glast.raised = "none"

\* the checklist result of the phase the returned record names, as the
\* enforcer recorded it during the call
ChecklistPassedNow == validation_results[glast.value.phase] = "passed"

C12_YoloIgnoresTrustAndRisk ==
    (Returned /\ yolo_mode) =>
        /\ glast.value.approved = ChecklistPassedNow
        /\ glast.value.mode = "yolo"
        /\ \A l \in TrustLevels, r \in AllRiskInputs :
               ApprovalDecision(TRUE, l, r, ChecklistPassedNow) =
                   [approved |-> glast.value.approved, mode |-> glast.value.mode]

\* a yolo-mode request approved at a trust level that does not authorize its risk
C12_Witness ==
    /\ Returned
    /\ yolo_mode
    /\ glast.value.approved
    /\ ~CheckTrustAuthorization(trust_level, glast.value.risk_level)

\* C13 as stated: at trust level SUPERVISED a request with risk 'medium' is
\* never approved, in any reachable manager state.
C13_SupervisedNeverApprovesMedium ==
    (Returned /\ trust_level = SUPERVISED /\ glast.value.risk_level = "medium")
        => ~glast.value.approved

\* C13: at trust level SUPERVISED with yolo_mode off a request with risk
\* 'medium' is never approved, whatever the phase and the facts bag.
C13_SupervisedStandardNeverApprovesMedium ==
    (Returned /\ ~yolo_mode /\ trust_level = SUPERVISED
        /\ glast.value.risk_level = "medium")
        => ~glast.value.approved

\* a SUPERVISED standard-mode request for 'medium' refused on a passed checklist
C13_Witness ==
    /\ Returned
    /\ ~yolo_mode
    /\ trust_level = SUPERVISED
    /\ glast.value.risk_level = "medium"
    /\ ChecklistPassedNow
    /\ ~glast.value.approved

\* _check_trust_authorization was the last call
Checked == glast.op = "_check_trust_authorization"

\* the legacy risk levels each trust level is said to authorize
LegacyAuthorized(level) ==
    CASE level = SUPERVISED -> {"minimal", "low"}
      [] level = GUIDED -> {"minimal", "low", "medium"}
      [] level = AUTONOMOUS -> {"minimal", "low", "medium", "high"}
      [] level = TRUSTED_PARTNER -> {"minimal", "low", "medium", "high", "critical"}

\* C14: for the five legacy risk levels the authorization check answers by
\* the table SUPERVISED {minimal, low}, GUIDED {minimal, low, medium},
\* AUTONOMOUS {minimal, low, medium, high}, TRUSTED_PARTNER all five; what a
\* level authorizes the level above authorizes too; and a TRUSTED_PARTNER
\* standard-mode request for 'critical' with a passing checklist is approved.
C14_LegacyTableExact ==
    /\ (Checked /\ glast.value.risk_level \in LegacyRisks) =>
           /\ glast.value.authorized <=>
                  glast.value.risk_level \in LegacyAuthorized(trust_level)
           /\ (glast.value.authorized /\ trust_level < TRUSTED_PARTNER) =>
                  CheckTrustAuthorization(trust_level + 1, glast.value.risk_level)
    /\ (Returned /\ ~yolo_mode /\ trust_level = TRUSTED_PARTNER
           /\ glast.value.risk_level = "critical" /\ ChecklistPassedNow)
           => glast.value.approved

\* a TRUSTED_PARTNER standard-mode request for 'critical' was approved
C14_Witness ==
    /\ Returned
    /\ ~yolo_mode
    /\ trust_level = TRUSTED_PARTNER
    /\ glast.value.risk_level = "critical"
    /\ glast.value.approved

\* C15: 'streamlined' and 'prototype' are authorized exactly at GUIDED and
\* above and 'yolo' exactly at AUTONOMOUS and above, whatever the legacy table
\* holds for these names.
C15_PathwayRuleAlone ==
    (Checked /\ glast.value.risk_level \in PathwayRisks) =>
        (glast.value.authorized <=>
            IF glast.value.risk_level = "yolo" THEN trust_level >= AUTONOMOUS
            ELSE trust_level >= GUIDED)

\* a pathway name authorized at a level whose table row does not hold it
C15_Witness ==
    /\ Checked
    /\ glast.value.risk_level \in PathwayRisks
    /\ glast.value.authorized
    /\ glast.value.risk_level \notin TrustAuthorizations(trust_level)

\* C16 as stated: every request_approval call, whatever its phase, appends
\* exactly one approval record to the log and returns that record.
C16_EveryRequestAppendsOneRecord ==
    [][glast'.op = "request_approval" =>
         /\ glast'.raised = "none"
         /\ approval_log' = Append(approval_log, glast'.value)]_vars

\* C16: a request_approval call on one of the four phases appends exactly one
\* approval record and returns that record, approved or not, so the log grows
\* by one per such call; a call on any other phase raises and appends nothing.
C16_KnownPhaseRequestAppendsOneRecord ==
    [][glast'.op = "request_approval" =>
         IF glast'.raised = "none"
         THEN /\ IsApprovalRecord(glast'.value)
              /\ ~UnknownPhase(glast'.value.phase)
              /\ approval_log' = Append(approval_log, glast'.value)
         ELSE /\ UnknownPhase(glast'.value)
              /\ approval_log' = approval_log]_vars

\* two requests on a fresh manager left two records, the second a refusal
C16_Witness ==
    /\ Returned
    /\ Len(approval_log) = 2
    /\ \A i \in 1..2 : IsApprovalRecord(approval_log[i])
    /\ approval_log[2] = glast.value
    /\ ~glast.value.approved

\* C17: the approval log is append-only: every call leaves the entries already
\* in the log in place and unchanged, so a record keeps the trust_level and
\* yolo_mode it was written with after later set_trust_level and set_yolo_mode
\* calls.
C17_ApprovalLogAppendOnly ==
    [][/\ Len(approval_log') >= Len(approval_log)
       /\ \A i \in 1..Len(approval_log) : approval_log'[i] = approval_log[i]]_vars

\* an approval record followed by the entry of a set_trust_level call, its
\* trust_level no longer the manager's
C17_Witness ==
    /\ Len(approval_log) = 2
    /\ IsApprovalRecord(approval_log[1])
    /\ ~IsApprovalRecord(approval_log[2])
    /\ approval_log[2].action = "trust_level_change"
    /\ approval_log[1].trust_level # TrustName(trust_level)

\* C18: set_yolo_mode(b) changes only yolo_mode and appends exactly one audit
\* entry with the previous value and b, also when b is the previous value;
\* set_trust_level(l) changes only trust_level and appends exactly one audit
\* entry with the names of the previous and the new level, upward or downward.
C18_SettersChangeOneFieldAndAudit ==
    [][/\ glast'.op = "set_yolo_mode" =>
             /\ UNCHANGED <<trust_level, validation_results>>
             /\ approval_log' =
                    Append(approval_log,
                           [action |-> "yolo_mode_change", previous |-> yolo_mode,
                            current |-> yolo_mode'])
       /\ glast'.op = "set_trust_level" =>
             /\ UNCHANGED <<yolo_mode, validation_results>>
             /\ approval_log' =
                    Append(approval_log,
                           [action |-> "trust_level_change",
                            previous |-> TrustName(trust_level),
                            current |-> TrustName(trust_level')])]_vars

\* the log holds the entry of a set_yolo_mode that changed nothing and the
\* entry of a set_trust_level that lowered the level
C18_Witness ==
    /\ \E i \in 1..Len(approval_log) :
          /\ ~IsApprovalRecord(approval_log[i])
          /\ approval_log[i].action = "yolo_mode_change"
          /\ approval_log[i].previous = approval_log[i].current
    /\ \E i \in 1..Len(approval_log) :
          /\ ~IsApprovalRecord(approval_log[i])
          /\ approval_log[i].action = "trust_level_change"
          /\ approval_log[i].previous = "TRUSTED_PARTNER"
          /\ approval_log[i].current = "SUPERVISED"

(***************************************************************************)
(* Properties of the checklist results                                     *)
(***************************************************************************)
\* this step recorded for `phase` the status of a validation that passed or
\* failed, and left the status of every other phase as it was
RecordedFor(phase, passed) ==
    /\ DOMAIN validation_results' = DOMAIN validation_results \cup {phase}
    /\ validation_results'[phase] = IF passed THEN "passed" ELSE "failed"
    /\ \A q \in DOMAIN validation_results \ {phase} :
           validation_results'[q] = validation_results[q]

\* C19: every validate_phase call and every request_approval call on phase p
\* leaves p recorded as PASSED if that validation passed and FAILED if it
\* failed, also when the request is refused; it changes the status of no
\* other phase, and a phase gets a status only by being validated.
C19_StatusIsLastValidation ==
    [][/\ (glast'.op = "request_approval" /\ glast'.raised = "none") =>
             RecordedFor(glast'.value.phase, glast'.value.checklist_passed)
       /\ (glast'.op = "validate_phase" /\ glast'.raised = "none") =>
             RecordedFor(glast'.value.phase, glast'.value.all_passed)
       /\ glast'.op \in {"request_approval", "validate_phase"}
             \/ UNCHANGED validation_results
       /\ glast'.raised # "none" => UNCHANGED validation_results]_vars

\* a refused request left its phase PASSED, next to a phase recorded FAILED,
\* while a third phase has no status
C19_Witness ==
    /\ Returned
    /\ ~glast.value.approved
    /\ ChecklistPassedNow
    /\ \E q \in DOMAIN validation_results : validation_results[q] = "failed"
    /\ \E q \in DOMAIN Checklists : q \notin DOMAIN validation_results

\* C20: validate_phase on a phase that is none of the four raises ValueError
\* and records no status; request_approval on such a phase raises the same
\* error and leaves yolo_mode, trust_level, the checklist results and the
\* approval log unchanged.
C20_UnknownPhaseRaisesAndChangesNothing ==
    [][glast'.op \in {"validate_phase", "request_approval"} =>
         IF glast'.raised = "none"
         THEN ~UnknownPhase(glast'.value.phase)
         ELSE /\ glast'.raised = "ValueError"
              /\ UnknownPhase(glast'.value)
              /\ UNCHANGED <<yolo_mode, trust_level, validation_results,
                             approval_log>>]_vars

\* request_approval raised on an unknown phase in a manager that holds a
\* recorded status and an approval record
C20_Witness ==
    /\ glast = GCall("request_approval", "ValueError", "deployment")
    /\ validation_results # EmptyMap
    /\ approval_log # <<>>

\* what each phase is said to ask of the facts bag
PhasePasses(phase, artifacts) ==
    CASE phase = "research" -> Given(artifacts, "evidence_ids")
      [] phase = "decision" ->
             Given(artifacts, "evidence_refs") /\ Given(artifacts, "options")
      [] phase = "specification" ->
             Given(artifacts, "requirements") /\ Given(artifacts, "evidence_refs")
      [] phase = "implementation" ->
             Given(artifacts, "test_files") /\ Flag(artifacts, "tests_passing")

\* C21: validate_phase passes research iff evidence_ids is non-empty, decision
\* iff evidence_refs and options are non-empty, specification iff requirements
\* and evidence_refs are non-empty, implementation iff test_files is non-empty
\* and tests_passing is true; the items no rule matches never fail a phase.
C21_ValidatePhaseExact ==
    [][glast'.op = "validate_phase" =>
         \A p \in DOMAIN Checklists, a \in ArtifactInputs :
             ValidatePhase(p, a) =>
                 glast'.value.all_passed = PhasePasses(p, a)]_vars

\* the decision phase passed on a bag that holds no rationale
C21_Witness ==
    /\ glast.op = "validate_phase"
    /\ glast.raised = "none"
    /\ glast.value.phase = "decision"
    /\ glast.value.all_passed
    /\ "rationale" \notin ArtifactKeys

(***************************************************************************)
(* Properties of the context curator                                       *)
(***************************************************************************)
\* the index holds an item with this id
HoldsItem(ctx_id, item_id) ==
    \E i \in 1..Len(context_indexes[ctx_id].context_items) :
        context_indexes[ctx_id].context_items[i].item_id = item_id

\* this step rewrote the score and last_evaluated of the k-th item of the
\* index and nothing else in any index
RescoredOnly(ctx_id, k, new_score) ==
    context_indexes' =
        [context_indexes EXCEPT
            ![ctx_id].context_items[k] =
                [item_id |-> @.item_id, relevance_score |-> new_score,
                 last_evaluated |-> "score_context_item"]]

\* C22: score_context_item(ctx, item, s) returns false and changes nothing
\* when ctx is unknown, when item is not in that index, or when s < 0.0 or
\* s > 1.0; otherwise, s = 0.0 and s = 1.0 included, it returns true and
\* changes the score and last_evaluated of one entry with that id, leaving
\* every other item, every other field and every other index as it was.
C22_ScoreContextItemContract ==
    [][clast'.op = "score_context_item" =>
         LET ctx_id == clast'.args.ctx_id
             item_id == clast'.args.item_id
             s == clast'.args.new_score
         IN IF \/ ctx_id \notin DOMAIN context_indexes
               \/ ~HoldsItem(ctx_id, item_id)
               \/ s < 0
               \/ s > 100
            THEN clast'.ret = FALSE /\ UNCHANGED context_indexes
            ELSE /\ clast'.ret = TRUE
                 /\ \E k \in 1..Len(context_indexes[ctx_id].context_items) :
                        /\ context_indexes[ctx_id].context_items[k].item_id = item_id
                        /\ RescoredOnly(ctx_id, k, s)]_vars

\* a score of 0.0 was accepted for an item whose id a second entry shares,
\* and that entry kept its score
C22_Witness ==
    /\ clast.op = "score_context_item"
    /\ clast.ret = TRUE
    /\ clast.args.new_score = 0
    /\ LET items == context_indexes[clast.args.ctx_id].context_items
       IN /\ Len(items) = 2
          /\ items[1].item_id = items[2].item_id
          /\ items[1].relevance_score = 0
          /\ items[2].relevance_score = 80

\* C23: in every reachable curator state the relevance score of every item of
\* every index lies in [0.0, 1.0].
C23_ScoresInUnitInterval ==
    \A c \in DOMAIN context_indexes :
        \A i \in 1..Len(context_indexes[c].context_items) :
            /\ context_indexes[c].context_items[i].relevance_score >= 0
            /\ context_indexes[c].context_items[i].relevance_score <= 100

\* a score of 1.01 was refused for an item the index holds, after a change
\* was recorded
C23_Witness ==
    /\ clast.op = "score_context_item"
    /\ clast.args.new_score = 101
    /\ clast.ret = FALSE
    /\ clast.args.ctx_id \in DOMAIN context_indexes
    /\ HoldsItem(clast.args.ctx_id, clast.args.item_id)
    /\ context_indexes[clast.args.ctx_id].change_history # <<>>

\* the items evaluate_context_on_turn is said to keep
AtLeastThreshold(item) == item.relevance_score >= 20
BelowThreshold(item) == item.relevance_score < 20

\* C24: evaluate_context_on_turn(ctx) on a known index replaces the item list
\* by the previous items with score >= 0.2 in their previous order, a score of
\* exactly 0.2 kept; it reports evaluated = previous item count, removed =
\* number of items below 0.2, kept = evaluated - removed and one reason per
\* removed item; apart from the index's last_evaluated it changes nothing
\* else: no score, no reference list, no change history, no other index.
C24_EvaluateKeepsFromThreshold ==
    [][(clast'.op = "evaluate_context_on_turn"
          /\ clast'.args.ctx_id \in DOMAIN context_indexes) =>
         LET ctx_id == clast'.args.ctx_id
             items == context_indexes[ctx_id].context_items
         IN /\ context_indexes' =
                   [context_indexes EXCEPT
                       ![ctx_id].context_items = SelectSeq(items, AtLeastThreshold),
                       ![ctx_id].last_evaluated = "evaluate_context_on_turn"]
            /\ clast'.ret.evaluated = Len(items)
            /\ clast'.ret.removed = Len(SelectSeq(items, BelowThreshold))
            /\ clast'.ret.kept = clast'.ret.evaluated - clast'.ret.removed
            /\ Len(clast'.ret.recommendations) = clast'.ret.removed]_vars

\* an evaluation removed one item and kept one whose score is exactly 0.2
C24_Witness ==
    /\ clast.op = "evaluate_context_on_turn"
    /\ clast.args.ctx_id \in DOMAIN context_indexes
    /\ clast.ret.removed = 1
    /\ clast.ret.kept = 1
    /\ context_indexes[clast.args.ctx_id].context_items[1].relevance_score = 20

\* C25 as stated: in every reachable state no index holds an item whose
\* relevance score is below 0.2.
C25_NoItemBelowThreshold ==
    \A c \in DOMAIN context_indexes :
        \A i \in 1..Len(context_indexes[c].context_items) :
            context_indexes[c].context_items[i].relevance_score >= 20

\* C25: when evaluate_context_on_turn returns for a known index, that index
\* holds no item whose relevance score is below 0.2; between evaluations an
\* item rescored below 0.2 stays in its index.
C25_NoItemBelowThresholdAfterEvaluation ==
    (clast.op = "evaluate_context_on_turn"
        /\ clast.args.ctx_id \in DOMAIN context_indexes) =>
        \A i \in 1..Len(context_indexes[clast.args.ctx_id].context_items) :
            context_indexes[clast.args.ctx_id].context_items[i].relevance_score >= 20

\* an evaluation dropped the one item of an index, rescored to 0.19 before
C25_Witness ==
    /\ clast.op = "evaluate_context_on_turn"
    /\ clast.args.ctx_id \in DOMAIN context_indexes
    /\ clast.ret.removed = 1
    /\ context_indexes[clast.args.ctx_id].context_items = <<>>

\* the reference list of an index that a change type is about
RefsOf(ctx_index, change_type) ==
    CASE change_type = "decision" -> ctx_index.decision_refs
      [] change_type = "spec" -> ctx_index.spec_refs
      [] change_type = "file" -> ctx_index.files
      [] OTHER -> <<>>

\* this step appended one entry to the change history of the index, wrote its
\* last_updated, and left the rest of the index as it was
GainedOneEntry(ctx_id) ==
    /\ Len(context_indexes'[ctx_id].change_history) =
           Len(context_indexes[ctx_id].change_history) + 1
    /\ context_indexes'[ctx_id] =
           [context_indexes[ctx_id] EXCEPT
               !.change_history =
                   Append(@, context_indexes'[ctx_id].change_history[Len(@) + 1]),
               !.last_updated = context_indexes'[ctx_id].last_updated]

\* C26: propagate_update(type, id) with type decision, spec or file returns
\* exactly the ids of the indexes whose decision_refs, spec_refs or files
\* already hold id; each of them gains exactly one change-history entry and
\* keeps its reference lists; every other index is unchanged; for any other
\* type the result is empty and nothing changes.
C26_PropagateReachesReferencingOnly ==
    [][clast'.op = "propagate_update" =>
         LET change_type == clast'.args.change_type
             referencing ==
                 {c \in DOMAIN context_indexes :
                     clast'.args.changed_id \in
                         Range(RefsOf(context_indexes[c], change_type))}
         IN /\ clast'.ret = referencing
            /\ DOMAIN context_indexes' = DOMAIN context_indexes
            /\ \A c \in DOMAIN context_indexes :
                   IF c \in referencing THEN GainedOneEntry(c)
                   ELSE context_indexes'[c] = context_indexes[c]
            /\ change_type \notin {"decision", "spec", "file"} =>
                   clast'.ret = {} /\ UNCHANGED context_indexes]_vars

\* a propagation reached one of two indexes
C26_Witness ==
    /\ clast.op = "propagate_update"
    /\ Cardinality(clast.ret) = 1
    /\ Cardinality(DOMAIN context_indexes) = 2
    /\ \E c \in DOMAIN context_indexes :
          c \notin clast.ret /\ context_indexes[c].change_history = <<>>

\* list `after` is list `before` followed by new entries
Extends(after, before) ==
    /\ Len(after) >= Len(before)
    /\ \A i \in 1..Len(before) : after[i] = before[i]

\* C27: update_context_on_change on a known index returns true and appends
\* exactly one change-history entry; for type decision, spec or file every
\* affected id is afterwards in the matching reference list, which grows by
\* the ids it did not hold, each once, so the same call again leaves the lists
\* unchanged; the other lists, and all lists for any other type, stay as they
\* were; on an unknown index it returns false and changes no index.
C27_UpdateAddsEachIdOnce ==
    [][clast'.op = "update_context_on_change" =>
         LET ctx_id == clast'.args.ctx_id
             change_type == clast'.args.change_type
             affected == Range(clast'.args.affected_items)
         IN IF ctx_id \notin DOMAIN context_indexes
            THEN clast'.ret = FALSE /\ UNCHANGED context_indexes
            ELSE /\ clast'.ret = TRUE
                 /\ Len(context_indexes'[ctx_id].change_history) =
                        Len(context_indexes[ctx_id].change_history) + 1
                 /\ Extends(context_indexes'[ctx_id].change_history,
                            context_indexes[ctx_id].change_history)
                 /\ \A t \in {"decision", "spec", "file"} :
                        LET before == RefsOf(context_indexes[ctx_id], t)
                            after == RefsOf(context_indexes'[ctx_id], t)
                        IN IF t = change_type
                           THEN /\ affected \subseteq Range(after)
                                /\ Extends(after, before)
                                /\ Len(after) = Len(before)
                                       + Cardinality(affected \ Range(before))
                           ELSE after = before
                 /\ \A c \in DOMAIN context_indexes \ {ctx_id} :
                        context_indexes'[c] = context_indexes[c]]_vars

\* the same decision change was recorded twice and its id, named twice in
\* each call, is in decision_refs once
C27_Witness ==
    /\ clast.op = "update_context_on_change"
    /\ clast.args.ctx_id \in DOMAIN context_indexes
    /\ clast.args.change_type = "decision"
    /\ LET ctx_index == context_indexes[clast.args.ctx_id]
       IN /\ Len(ctx_index.change_history) = 2
          /\ ctx_index.change_history[1].change_type = "decision"
          /\ ctx_index.change_history[1].affected_items = <<"DEC-0001", "DEC-0001">>
          /\ ctx_index.change_history[2].affected_items = <<"DEC-0001", "DEC-0001">>
          /\ ctx_index.decision_refs = <<"DEC-0001">>

\* C28: under any sequence of curator calls no index is discarded and the
\* change history of every index only grows: its length never decreases and
\* the entries already recorded are never changed or dropped.
C28_ChangeHistoryAppendOnly ==
    [][\A c \in DOMAIN context_indexes :
         /\ c \in DOMAIN context_indexes'
         /\ Extends(context_indexes'[c].change_history,
                    context_indexes[c].change_history)]_vars

(***************************************************************************)
(* Properties of artifact ids                                              *)
(***************************************************************************)
\* the last call produced an id
Generated == hlast.op # "init" /\ hlast.raised = "None"
\* the numbers used by the existing ids of the type asked for
UsedNumbers == Numbers(hlast.artifact_type, hlast.existing_ids)
\* the number read back from the id produced
Suffix == ToInt(Group1(hlast.artifact_type, hlast.ret))
\* the ids a harvester makes from an empty registry, the first n of them
FirstIds(n) == {Id(EVD, ZeroPadded(Decimal(k), 4)) : k \in 1..n}

\* C29: generate_artifact_id returns TYPE-0001 when no existing id is of that
\* type and the id numbered largest + 1 otherwise ({0001, 0003} gives 0004);
\* a harvest that succeeds returns an id that was not in the registry and
\* registers it, and when the registry held exactly the first n ids it
\* returns the id numbered n + 1
C29_NextIdIsMaxPlusOne ==
    /\ Generated =>
          /\ Matches(hlast.artifact_type, hlast.ret)
          /\ UsedNumbers = {} =>
                hlast.ret = Id(hlast.artifact_type, <<"0", "0", "0", "1">>)
          /\ UsedNumbers # {} => Suffix = SetMax(UsedNumbers) + 1
          /\ (/\ hlast.artifact_type = EVD
              /\ hlast.existing_ids = {Id(EVD, <<"0", "0", "0", "1">>),
                                        Id(EVD, <<"0", "0", "0", "3">>)})
                => hlast.ret = Id(EVD, <<"0", "0", "0", "4">>)
    /\ (hlast.op = "harvest" /\ hlast.raised = "None") =>
          /\ hlast.ret \notin hlast.existing_ids
          /\ evidence_registry = hlast.existing_ids \cup {hlast.ret}
          /\ \A n \in 0..MaxRegistry :
                hlast.existing_ids = FirstIds(n) =>
                    /\ hlast.ret = Id(EVD, ZeroPadded(Decimal(n + 1), 4))
                    /\ evidence_registry = FirstIds(n + 1)

\* the third harvest on a registry that held the first two ids
C29_Witness ==
    /\ hlast.op = "harvest"
    /\ hlast.raised = "None"
    /\ hlast.existing_ids = {Id(EVD, <<"0", "0", "0", "1">>),
                             Id(EVD, <<"0", "0", "0", "2">>)}
    /\ hlast.ret = Id(EVD, <<"0", "0", "0", "3">>)
    /\ evidence_registry = FirstIds(3)

\* the smallest integer from 1 that no existing id of the type uses
SmallestUnused ==
    CHOOSE n \in 1..(Cardinality(UsedNumbers) + 1) :
        n \notin UsedNumbers /\ \A m \in 1..(n - 1) : m \in UsedNumbers

\* C30 as stated: the number of every generated id is the smallest integer
\* from 1 that no existing id of the same type uses
C30_SuffixIsSmallestUnused ==
    Generated => Suffix = SmallestUnused

\* C30: the number of every generated id is at least 1, is used by no
\* existing id of the same type and is larger than every number they use; it
\* is the smallest unused integer whenever the used numbers are 1..n
C30_SuffixAboveEveryUsedNumber ==
    Generated =>
        /\ Suffix >= 1
        /\ Suffix \notin UsedNumbers
        /\ \A u \in UsedNumbers : u < Suffix
        /\ UsedNumbers = 1..Cardinality(UsedNumbers) => Suffix = SmallestUnused

\* an id generated over existing ids whose numbers leave a gap
C30_Witness ==
    /\ hlast.op = "generate_artifact_id"
    /\ UsedNumbers = {1, 3}
    /\ Suffix = 4
    /\ SmallestUnused = 2

(***************************************************************************)
(* Properties of the evidence requirement                                  *)
(***************************************************************************)
\* a reference list that is not empty and names registered evidence only
CitesEvidence(evidence_refs, registry) ==
    /\ evidence_refs # <<>>
    /\ \A i \in 1..Len(evidence_refs) : evidence_refs[i] \in registry

\* C31: require_evidence_for_artifact for a DEC or a SPEC returns true only
\* when the reference list is non-empty and every reference is registered,
\* and raises ValueError otherwise, whatever is_user_requirement is; every
\* decision and specification stored by PromptOptimizer cites at least one
\* registered evidence id
C31_NoDecOrSpecWithoutEvidence ==
    /\ (/\ olast.op = "require_evidence_for_artifact"
        /\ olast.artifact_type \in {DEC, SPEC})
          => /\ olast.returned
                  <=> CitesEvidence(olast.evidence_refs, olast.registry)
             /\ ~olast.returned => olast.raised = "ValueError"
    /\ \A i \in 1..Len(workflow_state.decisions) :
          CitesEvidence(workflow_state.decisions[i].evidence_refs,
                        evidence_registry)
    /\ \A i \in 1..Len(workflow_state.specifications) :
          CitesEvidence(workflow_state.specifications[i].evidence_refs,
                        evidence_registry)

(***************************************************************************)
(* Further properties of the guard                                         *)
(***************************************************************************)
\* C32: every SystemGuard call that changes the traceability chain or the
\* strict-mode switch appends exactly one entry to the operation log, and no
\* call removes or alters an entry already logged
C32_NoSilentChainOrModeChange ==
    [][/\ (chain' # chain \/ strict_mode' # strict_mode)
            => Len(operation_log') = Len(operation_log) + 1
       /\ Len(operation_log') >= Len(operation_log)
       /\ SubSeq(operation_log', 1, Len(operation_log)) = operation_log]_vars

(***************************************************************************)
(* Change ids                                                              *)
(***************************************************************************)
\* the number of changes among the first k of a history that carry the date
\* of the k-th
SameDateUpTo(history, k) ==
    Cardinality({j \in 1..k : history[j].date = history[k].date})

\* C33: the sequence number in a change id is a per-day counter: within one
\* index the k-th change recorded on a date has sequence number k, however
\* many changes were recorded on earlier dates
C33_ChangeSequenceIsPerDay ==
    \A c \in DOMAIN context_indexes :
        \A k \in 1..Len(context_indexes[c].change_history) :
            /\ context_indexes[c].change_history[k].change_id.date
                   = context_indexes[c].change_history[k].date
            /\ context_indexes[c].change_history[k].change_id.seq
                   = SameDateUpTo(context_indexes[c].change_history, k)

(***************************************************************************)
(* Initial relevance                                                       *)
(***************************************************************************)
\* the element an item was made from
ElementOf(item_id) ==
    Elements[CHOOSE i \in 1..Len(Elements) : Elements[i].node_id = item_id]

\* the score by the first matching tier: a focus area that is the name,
\* ignoring case; one that is part of the name; one that is a dependency name
TierScore(element, focus_areas) ==
    IF \E i \in 1..Len(focus_areas) :
           Lower(focus_areas[i]) = Lower(element.name)
    THEN 100
    ELSE IF \E i \in 1..Len(focus_areas) :
                InString(Lower(focus_areas[i]), Lower(element.name))
    THEN 80
    ELSE IF \E i \in 1..Len(focus_areas) :
                \E dep \in element.dependencies :
                    Lower(focus_areas[i]) = Lower(dep)
    THEN 60
    ELSE 40

\* C34: build_context_index gives every item the score of the first matching
\* tier over all focus areas: 1.0 for a focus area equal to the element's name
\* ignoring case, else 0.8 for one that is a substring of the name, else 0.6
\* for one that is one of the element's dependency names, else 0.4
C34_InitialRelevanceByFirstTier ==
    clast.op = "build_context_index" =>
        \A k \in 1..Len(context_indexes[clast.ret].context_items) :
            LET item == context_indexes[clast.ret].context_items[k]
            IN /\ item.relevance_score \in {100, 80, 60, 40}
               /\ item.relevance_score =
                      TierScore(ElementOf(item.item_id), clast.args.focus_areas)

(***************************************************************************)
(* Test status                                                             *)
(***************************************************************************)
\* C35: register_test with valid spec references stores the references and
\* the status given, for a new test id and for one already registered
\* alike, whatever status the test had before, and changes no other test
C35_RegisterTestOverwrites ==
    [][last'.op = "register_test" =>
        \A t \in TestIds, refs \in TestRefInputs, st \in StatusInputs :
            (/\ InvalidRefs(refs, DOMAIN spec_files) = <<>>
             /\ ChainRegisterTest(t, refs, st))
                => /\ last'.ret = "None"
                   /\ DOMAIN test_files' = DOMAIN test_files \cup {t}
                   /\ test_files'[t] = [spec_refs |-> refs, status |-> st]
                   /\ \A x \in DOMAIN test_files \ {t} :
                          test_files'[x] = test_files[x]]_vars

\* a test registered as failing and one registered as passing, both with a
\* specification
C35_Witness ==
    /\ last.op = "register_test"
    /\ last.ret = "None"
    /\ DOMAIN test_files = TestIds
    /\ test_files["TEST-0001"].status = "passing"
    /\ test_files["TEST-0001"].spec_refs # <<>>
    /\ test_files["TEST-0002"].status = "failing"

\* the code file cf[c] is linked to a registered test whose status in tf is
\* neither 'failing' nor 'passing'
LinkedToOddStatus(cf, tf, c) ==
    /\ c \in DOMAIN cf
    /\ \E i \in 1..Len(cf[c]) :
          /\ cf[c][i] \in DOMAIN tf
          /\ tf[cf[c][i]].status \notin {"failing", "passing"}

\* the test has a specification, and each of its specifications has evidence
FullyLinked(test_id) ==
    /\ test_files[test_id].spec_refs # <<>>
    /\ \A j \in 1..Len(test_files[test_id].spec_refs) :
          /\ test_files[test_id].spec_refs[j] \in DOMAIN spec_files
          /\ spec_files[test_files[test_id].spec_refs[j]] # <<>>

\* C36: a test may hold any status, but validate_chain raises GuardViolation
\* for a code file linked to a test whose status is neither 'failing' nor
\* 'passing', for the status itself when that test is the first one linked
\* and even when its specification and evidence links are complete; a
\* strict-mode write_code for such a code file raises GuardViolation and
\* writes nothing
C36_OddStatusBlocksValidation ==
    /\ [](\A c \in DOMAIN code_files :
             LinkedToOddStatus(code_files, test_files, c)
                => /\ Raised(ValidateChain(c)) = "GuardViolation"
                   /\ test_files[code_files[c][1]].status
                          \notin {"failing", "passing"}
                         => ValidateChain(c) = "invalid_status")
    /\ [][(/\ last'.op = "write_code"
           /\ strict_mode
           /\ \E c \in CodeFileIds :
                  LinkedToOddStatus(code_files', test_files', c))
             => /\ last'.ret = "GuardViolation"
                /\ operation_log' = operation_log]_vars

\* a strict write refused for the status of a test whose links are complete
C36_Witness ==
    /\ last = Call("write_code", "GuardViolation", "invalid_status")
    /\ strict_mode
    /\ "app.py" \in DOMAIN code_files
    /\ code_files["app.py"] # <<>>
    /\ test_files[code_files["app.py"][1]].status = "skipped"
    /\ FullyLinked(code_files["app.py"][1])

(***************************************************************************)
(* Log queries                                                             *)
(***************************************************************************)
\* the most recent min(n, length) entries of a log, in log order
MostRecent(log, n) ==
    LET m == IF n < Len(log) THEN n ELSE Len(log)
    IN [i \in 1..m |-> log[Len(log) - m + i]]

\* what a query is to return: everything without a limit, the most recent
\* entries with one
Expected(log, limit) == IF limit.given THEN MostRecent(log, limit.n) ELSE log

\* C37: get_operation_log(limit = N) and get_approval_history(limit = N)
\* return exactly the most recent min(N, length) entries in log order for
\* every N >= 0, none for N = 0, and all entries without a limit
C37_LimitReturnsMostRecent ==
    /\ last.op = "get_operation_log"
          => last.ret = Expected(operation_log, last.at)
    /\ glast.op = "get_approval_history"
          => glast.value.returned = Expected(approval_log, glast.value.limit)

UnknownRisk(risk_level) == risk_level \notin LegacyRisks \cup PathwayRisks

\* C39: no trust level authorizes a risk string outside the five legacy and
\* three pathway names, so a standard-mode request_approval for it is recorded
\* with approved = false and mode 'manual_required' at every trust level
C39_UnknownRiskDenied ==
    /\ (Checked /\ UnknownRisk(glast.value.risk_level))
          => ~glast.value.authorized
    /\ \A i \in 1..Len(approval_log) :
          (/\ IsApprovalRecord(approval_log[i])
           /\ UnknownRisk(approval_log[i].risk_level)
           /\ ~approval_log[i].yolo_mode)
             => /\ ~approval_log[i].approved
                /\ approval_log[i].mode = "manual_required"

\* a TRUSTED_PARTNER request with a passing checklist, refused for its risk
C39_Witness ==
    /\ approval_log # <<>>
    /\ IsApprovalRecord(approval_log[Len(approval_log)])
    /\ approval_log[Len(approval_log)].risk_level = "extreme"
    /\ approval_log[Len(approval_log)].trust_level = TrustName(TRUSTED_PARTNER)
    /\ approval_log[Len(approval_log)].checklist_passed
    /\ ~approval_log[Len(approval_log)].yolo_mode
    /\ approval_log[Len(approval_log)].mode = "manual_required"

\* C40: every approval record of request_approval has mode 'yolo' exactly when
\* its yolo_mode field is true, approved = true when its mode is 'trust_based',
\* approved = false when its mode is 'manual_required', and carries the
\* manager's trust level and yolo flag as they were at the call
C40_ApprovalRecordConsistent ==
    /\ \A i \in 1..Len(approval_log) :
          IsApprovalRecord(approval_log[i]) =>
             /\ (approval_log[i].mode = "yolo") <=> approval_log[i].yolo_mode
             /\ (approval_log[i].mode = "trust_based") => approval_log[i].approved
             /\ (approval_log[i].mode = "manual_required")
                   => ~approval_log[i].approved
    /\ Returned =>
          /\ approval_log[Len(approval_log)] = glast.value
          /\ glast.value.trust_level = TrustName(trust_level)
          /\ glast.value.yolo_mode = yolo_mode

\* a trust-based approval returned right after a change of the trust level,
\* stamped with the new level
C40_Witness ==
    /\ Returned
    /\ glast.value.mode = "trust_based"
    /\ Len(approval_log) = 2
    /\ approval_log[1].action = "trust_level_change"
    /\ approval_log[1].previous # approval_log[1].current
    /\ glast.value.trust_level = approval_log[1].current

====
